---------------------------- MODULE Spec2Model ----------------------------
(***************************************************************************)
(* A model of bookworm's translation engine                                *)
(* (src/src/bookworm/translation/engine.py), its translation cache         *)
(* (src/src/bookworm/library/database.py) and the reader session           *)
(* (src/src/bookworm/ui/screens/reader_screen.py).                         *)
(*                                                                         *)
(* Representation.  A Python str is a sequence of tokens: one-character    *)
(* strings, plus the three-character run "---" taken as one token (the     *)
(* only place the code looks inside a text for it is result.split("---")). *)
(* call.db0 and call.db1 record the cache as the call looked it up and as  *)
(* it stood right before the call ended; call.content records the          *)
(* provider's answer; call.interfered, that another coroutine wrote the    *)
(* cache while the call awaited.                                           *)
(* Optional[T] is a sequence of length at most one: <<>> is None and <<v>> *)
(* is the value v.  Python list positions are 0-based; the sequences here  *)
(* are 1-based, and only the indices the program stores or shows (chapter  *)
(* and page indices, paragraph ranges) keep their 0-based values.          *)
(***************************************************************************)
EXTENDS Integers, Sequences, FiniteSets, TLC

VARIABLES
    db_cache,      \* Database: the translation_cache table, hash -> row
    provider,      \* AppConfig.get_active_provider(): Optional provider config
    call,          \* the translate_batch call under observation (EngineSpec)
    requests,      \* payloads of the remote requests that call has issued
    prev,          \* the earlier completed call when `call` repeats it
    all_call,      \* the translate_all call under observation (TranslateAllSpec)
    engine,        \* TranslationEngine._client, the clients closed, the last queries
    library,       \* Database: books, reading_progress and bookmarks; LibraryScreen
    content,       \* ReaderScreen._content: Optional parsed book
    pages,         \* ReaderScreen._pages
    page_para_ranges, \* ReaderScreen._page_para_ranges
    chapter_idx,   \* ReaderScreen._chapter_idx
    page_idx,      \* ReaderScreen._page_idx
    dual_mode,     \* ReaderScreen._dual_mode
    line_spacing,  \* ReaderScreen._line_spacing
    loaded,        \* ReaderScreen._loaded
    translate_mode, \* ReaderScreen._translate_mode
    load_st,       \* the _load_book worker: "running", "parsed", "done", "failed"
    size,          \* size of the #content-text widget
    cancel,        \* TranslationEngine._cancel
    progress,      \* Database: the book's reading_progress row, Optional
    bookmarks,     \* Database: the book's bookmarks, <<chapter_index, scroll_offset>>
    bm_list,       \* the items of the bookmark sidebar
    toc_visible,   \* #toc-sidebar has the class "visible"
    bm_visible,    \* #bookmark-sidebar has the class "visible"
    export_file,   \* the text of the file <stem>_bilingual.txt, Optional
    export_report, \* done and total of the last "Translation incomplete" notification
    workers,       \* the _do_translate_pages workers not yet gone, oldest first
    notes,         \* the notifications the last step posted
    crashed,       \* an exception escaped a handler and the app has exited
    events,        \* the number of user events handled so far
    budget         \* the number of user events the session handles at most

engineVars == <<call, requests, prev>>
readerVars == <<all_call, engine, library, content, pages, page_para_ranges, chapter_idx, page_idx, dual_mode,
                line_spacing, loaded, translate_mode, load_st, size, cancel,
                progress, bookmarks, bm_list, toc_visible, bm_visible,
                export_file, export_report, workers,
                notes, crashed, events, budget>>
vars == <<db_cache, provider, call, requests, prev, all_call, engine, library, content, pages,
          page_para_ranges, chapter_idx, page_idx, dual_mode, line_spacing,
          loaded, translate_mode, load_st, size, cancel, progress, bookmarks,
          bm_list, toc_visible, bm_visible, export_file, export_report,
          workers, notes, crashed, events,
          budget>>

----------------------------------------------------------------------------
(* Bounds of the model *)

\* longest paragraph list handed to translate_batch in EngineSpec
MaxParas == 3
\* longest provider response, in tokens
MaxRespLen == 3
\* user events (keys, clicks, resizes) handled in one reader session of Spec
MaxEvents == 2
\* user events handled in one reader session of PrefetchSpec
MaxPrefetchEvents == 3
\* the number of user events of a session of PagingSpec
MaxPagingEvents == 3
\* the number of paragraphs before the chunks of a translate_all call
MaxAllPrefix == 2
\* the number of paragraphs of the chapter _reflow lays out
MaxReflowParas == 2
\* the number of queries and close() calls of QuerySpec
MaxQueries == 2
\* the number of HTTP clients the engine creates in QuerySpec
MaxClients == 2
MaxFaultEvents == 3

----------------------------------------------------------------------------
(* Optional values and small helpers *)

None == <<>>
Some(v) == <<v>>
IsNone(o) == o = <<>>
Val(o) == o[1]

Min(a, b) == IF a < b THEN a ELSE b
Max(a, b) == IF a > b THEN a ELSE b

\* all sequences over S of length at most n
SeqsUpTo(S, n) == UNION {[1..k -> S] : k \in 0..n}

----------------------------------------------------------------------------
(* Text *)

\* the characters str.strip() removes
Whitespace == {" ", "\n"}

RECURSIVE LStrip(_)
LStrip(s) ==
    IF s = <<>> THEN <<>>
    ELSE IF Head(s) \in Whitespace THEN LStrip(Tail(s))
    ELSE s

RECURSIVE RStrip(_)
RStrip(s) ==
    IF s = <<>> THEN <<>>
    ELSE IF s[Len(s)] \in Whitespace THEN RStrip(SubSeq(s, 1, Len(s) - 1))
    ELSE s

\* str.strip()
Strip(s) == RStrip(LStrip(s))

\* `not text.strip()`
IsBlank(s) == Strip(s) = <<>>

\* BATCH_SEPARATOR = "\n---\n"
BATCH_SEPARATOR == <<"\n", "---", "\n">>

\* sep.join(texts)
RECURSIVE Join(_, _)
Join(sep, texts) ==
    IF texts = <<>> THEN <<>>
    ELSE IF Len(texts) = 1 THEN texts[1]
    ELSE texts[1] \o sep \o Join(sep, Tail(texts))

\* result.split("---"): the runs between separator tokens, one more than
\* there are separators (so never an empty list)
RECURSIVE SplitFrom(_, _)
SplitFrom(s, cur) ==
    IF s = <<>> THEN <<cur>>
    ELSE IF Head(s) = "---" THEN <<cur>> \o SplitFrom(Tail(s), <<>>)
    ELSE SplitFrom(Tail(s), Append(cur, Head(s)))

Split(s) == SplitFrom(s, <<>>)

----------------------------------------------------------------------------
(* Database: translation cache *)

\* a key made of the text alone
MakeHashTextOnly(text, target_lang) == text

\* TranslationEngine._make_hash: sha256(f"{text}:{target_lang}")[:20].  The
\* digest prefix is taken as injective on the string hashed, so the key is
\* that string.
MakeHash(text, target_lang) == text \o <<":">> \o target_lang

\* Database.get_cached_translation
get_cached_translation(db, text_hash) ==
    IF text_hash \in DOMAIN db THEN Some(db[text_hash].translated_text) ELSE None

\* cache_translation as INSERT OR IGNORE: an existing row is kept
cache_translation_ignore(db, text_hash, source_text, translated_text, lang, provider_name) ==
    IF text_hash \in DOMAIN db THEN db
    ELSE (text_hash :> [source_text |-> source_text,
                        translated_text |-> translated_text,
                        target_lang |-> lang,
                        provider |-> provider_name]) @@ db

\* Database.cache_translation: INSERT OR REPLACE on the primary key `hash`
cache_translation(db, text_hash, source_text, translated_text, lang, provider_name) ==
    (text_hash :> [source_text |-> source_text,
                   translated_text |-> translated_text,
                   target_lang |-> lang,
                   provider |-> provider_name]) @@ db

----------------------------------------------------------------------------
(* TranslationEngine *)

\* AppConfig.translate_target_lang (default "zh-CN")
target_lang == <<"z", "h">>

\* TranslationEngine.get_cached
get_cached(db, text) ==
    IF IsBlank(text) THEN Some(<<>>)
    ELSE get_cached_translation(db, MakeHash(text, target_lang))

\* an is_translated that wants a translation that is not empty
is_translated_nonempty(db, text) ==
    IF IsBlank(text) THEN TRUE
    ELSE LET cached == get_cached_translation(db, MakeHash(text, target_lang))
         IN  ~IsNone(cached) /\ Val(cached) # <<>>

\* TranslationEngine.is_translated
is_translated(db, text) ==
    IF IsBlank(text) THEN TRUE
    ELSE ~IsNone(get_cached_translation(db, MakeHash(text, target_lang)))

\* the lookup loop testing `if cached:` instead of `if cached is not None:`
LookupResultsTruthy(db, paragraphs) ==
    [i \in 1..Len(paragraphs) |->
        IF IsBlank(paragraphs[i]) THEN Some(<<>>)
        ELSE IF get_cached(db, paragraphs[i]) = Some(<<>>) THEN None
        ELSE get_cached(db, paragraphs[i])]

\* translate_batch, lines 70-83: the lookup loop.  results[i] is None for a
\* miss; uncached_indices are the (1-based) positions of the misses in order.
LookupResults(db, paragraphs) ==
    [i \in 1..Len(paragraphs) |->
        IF IsBlank(paragraphs[i]) THEN Some(<<>>) ELSE get_cached(db, paragraphs[i])]

RECURSIVE IndicesFrom(_, _)
IndicesFrom(results, i) ==
    IF i > Len(results) THEN <<>>
    ELSE IF IsNone(results[i]) THEN <<i>> \o IndicesFrom(results, i + 1)
    ELSE IndicesFrom(results, i + 1)

UncachedIndices(db, paragraphs) == IndicesFrom(LookupResults(db, paragraphs), 1)

UncachedTexts(db, paragraphs) ==
    LET idx == UncachedIndices(db, paragraphs)
    IN  [j \in 1..Len(idx) |-> paragraphs[idx[j]]]

\* _call_api_batch, line 176: the text sent as the request's user message
RequestPayload(texts) == Join(BATCH_SEPARATOR, texts)

\* _call_api_batch, lines 185-188, on the content _call_api returned (already
\* stripped, line 224): split, strip each part, pad with "" and cut to len(texts)
PadPartsOffByOne(parts, n) ==
    [j \in 1..n |-> IF j < Len(parts) THEN parts[j] ELSE <<>>]

PadParts(parts, n) ==
    [j \in 1..n |-> IF j <= Len(parts) THEN parts[j] ELSE <<>>]

CallApiBatchParts(response, n) ==
    LET result == Strip(response)
        raw == Split(result)
        parts == [j \in 1..Len(raw) |-> Strip(raw[j])]
    IN  PadParts(parts, n)

\* translate_batch, line 87
ProviderName(p) == IF IsNone(p) THEN "unknown" ELSE Val(p).name

\* translate_batch, lines 88-97: results and cache after the j-th miss onwards
RECURSIVE WriteBackFrom(_, _, _, _, _, _)
WriteBackFrom(db, paragraphs, idx, parts, provider_name, j) ==
    IF j > Len(idx) THEN db
    ELSE WriteBackFrom(
            cache_translation(db, MakeHash(paragraphs[idx[j]], target_lang),
                              paragraphs[idx[j]], parts[j], target_lang,
                              provider_name),
            paragraphs, idx, parts, provider_name, j + 1)

\* the write-back loop skipping empty translations (`if trans:`)
RECURSIVE WriteBackNonEmptyFrom(_, _, _, _, _, _)
WriteBackNonEmptyFrom(db, paragraphs, idx, parts, provider_name, j) ==
    IF j > Len(idx) THEN db
    ELSE WriteBackNonEmptyFrom(
            IF parts[j] = <<>> THEN db
            ELSE cache_translation(db, MakeHash(paragraphs[idx[j]], target_lang),
                                   paragraphs[idx[j]], parts[j], target_lang,
                                   provider_name),
            paragraphs, idx, parts, provider_name, j + 1)

WriteBackNonEmpty(db, paragraphs, idx, parts, provider_name) ==
    WriteBackNonEmptyFrom(db, paragraphs, idx, parts, provider_name, 1)

WriteBack(db, paragraphs, idx, parts, provider_name) ==
    WriteBackFrom(db, paragraphs, idx, parts, provider_name, 1)

FillResults(results, idx, parts) ==
    [i \in 1..Len(results) |->
        IF \E j \in 1..Len(idx) : idx[j] = i
        THEN Some(parts[CHOOSE j \in 1..Len(idx) : idx[j] = i])
        ELSE results[i]]

\* translate_batch, line 99: [r or "" for r in results]
OrEmpty(results) ==
    [i \in 1..Len(results) |-> IF IsNone(results[i]) THEN <<>> ELSE Val(results[i])]

\* TranslationEngine.__init__, line 23: no client yet; `released` are the
\* clients aclose() was called on, `made` counts the clients created,
\* `queries` holds the last two queries answered
IdleEngine == [client |-> None, made |-> 0, released |-> {}, queries |-> <<>>]

\* Database._init_schema on a new file: the tables are empty and can be
\* written; LibraryScreen's table is empty and no dialog is shown.
\* reading_progress maps a book id to <<chapter_index, scroll_offset>>, a
\* bookmark is <<book_id, chapter_index, scroll_offset>> (its id is made of
\* the three); last_call and raised are the last call and its exception.
EmptyLibrary ==
    [books |-> {}, reading_progress |-> <<>>, bookmarks |-> {},
     writable |-> TRUE, table |-> {}, dialog |-> None, notes |-> <<>>,
     last_call |-> "", raised |-> ""]

----------------------------------------------------------------------------
(* translate_all (engine.py, lines 101-173).  The call is a record: pc is  *)
(* where it stands ("chunk": awaiting a full chunk's answer, "sleep": at    *)
(* asyncio.sleep(0), "final": awaiting the last chunk's answer), i the     *)
(* 1-based position the loop is at, batch_indices the positions collected  *)
(* for the next request, reports the calls of on_progress, sent the        *)
(* requests issued, db0 the cache when the call started, observed whether  *)
(* the loop has seen the cancel flag set.                                  *)

BATCH_MAX_PARAGRAPHS == 20

IdleAll ==
    [pc |-> "idle", paragraphs |-> <<>>, results |-> <<>>, done |-> 0, i |-> 0,
     batch_indices |-> <<>>, reports |-> <<>>, sent |-> <<>>, db0 |-> <<>>,
     observed |-> FALSE]

\* lines 111-115: the cached translations, None for a miss
AllLookup(db, paragraphs) == [i \in 1..Len(paragraphs) |-> get_cached(db, paragraphs[i])]

\* lines 111-118: results, done and the first call of on_progress
AllStarted(db, paragraphs, lookup) ==
    [pc |-> "loop", paragraphs |-> paragraphs,
     results |-> OrEmpty(lookup),
     done |-> Cardinality({i \in DOMAIN lookup : ~IsNone(lookup[i])}),
     i |-> 1, batch_indices |-> <<>>,
     reports |-> << <<Cardinality({i \in DOMAIN lookup : ~IsNone(lookup[i])}),
                     Len(paragraphs)>> >>,
     sent |-> <<>>, db0 |-> db, observed |-> FALSE]

\* batch_texts
BatchTexts(st) ==
    [j \in 1..Len(st.batch_indices) |-> st.paragraphs[st.batch_indices[j]]]

\* _call_api_batch up to the await of the post; _call_api raises when no
\* provider is selected (lines 191-193)
AllDispatch(st, p, kind) ==
    IF IsNone(p) THEN [st EXCEPT !.pc = "raised"]
    ELSE [st EXCEPT !.pc = kind,
                    !.sent = Append(@, [indices |-> st.batch_indices,
                                         payload |-> RequestPayload(BatchTexts(st))])]

\* a loop that never tests the cancel flag
CancelNever(c) == FALSE

\* lines 124 and 156: `if self._cancel`
CancelSeen(c) == c

\* an end of the loop that yields to the scheduler instead of returning
AllFinalYields(st, p, c) ==
    IF st.batch_indices = <<>> THEN [st EXCEPT !.pc = "sleep"]
    ELSE IF CancelSeen(c) THEN [st EXCEPT !.pc = "sleep", !.observed = TRUE]
    ELSE AllDispatch(st, p, "final")

\* lines 156-173: the last chunk, `if batch_texts and not self._cancel`
AllFinal(st, p, c) ==
    IF st.batch_indices = <<>> THEN [st EXCEPT !.pc = "returned"]
    ELSE IF CancelSeen(c) THEN [st EXCEPT !.pc = "returned", !.observed = TRUE]
    ELSE AllDispatch(st, p, "final")

\* lines 123-154: the loop from position i to its next await or its end,
\* c being the cancel flag
RECURSIVE AllLoop(_, _, _, _)
RECURSIVE AllAppended(_, _, _, _)
AllLoop(st, p, c, i) ==
    IF i > Len(st.paragraphs) THEN AllFinal([st EXCEPT !.i = i], p, c)
    ELSE IF CancelSeen(c) THEN AllFinal([st EXCEPT !.i = i, !.observed = TRUE], p, c)
    ELSE IF st.results[i] # <<>> THEN AllLoop(st, p, c, i + 1)
    ELSE IF IsBlank(st.paragraphs[i])
    THEN AllLoop([st EXCEPT !.done = @ + 1], p, c, i + 1)
    ELSE AllAppended([st EXCEPT !.batch_indices = Append(@, i)], p, c, i)

\* lines 136-137: a full chunk is sent
AllAppended(st, p, c, i) ==
    IF Len(st.batch_indices) >= BATCH_MAX_PARAGRAPHS
    THEN AllDispatch([st EXCEPT !.i = i + 1], p, "chunk")
    ELSE AllLoop(st, p, c, i + 1)

\* lines 138-153 and 158-171: the answer to the chunk is stored
AllStored(st, parts, next_pc) ==
    [st EXCEPT !.pc = next_pc,
               !.results = [i \in 1..Len(st.results) |->
                              IF \E j \in 1..Len(st.batch_indices) : st.batch_indices[j] = i
                              THEN parts[CHOOSE j \in 1..Len(st.batch_indices) :
                                            st.batch_indices[j] = i]
                              ELSE st.results[i]],
               !.done = @ + Len(st.batch_indices),
               !.reports = Append(@, <<st.done + Len(st.batch_indices),
                                       Len(st.paragraphs)>>),
               !.batch_indices = <<>>]

----------------------------------------------------------------------------
(* Display width and wrapping (reader_screen.py, lines 30-60).  "CJK" is a  *)
(* token standing for an East-Asian Wide glyph, "TRIANGLE" for U+25B8, a   *)
(* narrow glyph outside ASCII; every other token is one ASCII character.   *)
(* Paragraph texts hold no tab and no hyphen, so textwrap's chunks are the *)
(* runs of blanks and the runs of other characters.                        *)

WideGlyphs == {"CJK"}
NonAscii == WideGlyphs \cup {"TRIANGLE"}

\* _display_width, lines 30-34
RECURSIVE display_width(_)
display_width(text) ==
    IF text = <<>> THEN 0
    ELSE (IF Head(text) \in WideGlyphs THEN 2 ELSE 1) + display_width(Tail(text))

\* a wrapping that counts every glyph as one column
CharWidthNarrow(ch) == 1

\* line 49: 2 if unicodedata.east_asian_width(ch) in ("F", "W") else 1
CharWidth(ch) == IF ch \in WideGlyphs THEN 2 ELSE 1

\* str.isascii()
IsAscii(text) == \A i \in 1..Len(text) : text[i] \notin NonAscii

\* textwrap: the chunks of a text, a run of whitespace or a run of other
\* characters each (whitespace already replaced by " ")
RECURSIVE ChunksFrom(_, _)
ChunksFrom(text, cur) ==
    IF text = <<>> THEN (IF cur = <<>> THEN <<>> ELSE <<cur>>)
    ELSE IF cur = <<>> \/ ((Head(text) \in Whitespace) = (cur[1] \in Whitespace))
         THEN ChunksFrom(Tail(text),
                         Append(cur, IF Head(text) \in Whitespace THEN " " ELSE Head(text)))
         ELSE <<cur>> \o ChunksFrom(text, <<>>)

\* textwrap._wrap_chunks: the chunks that fit on the current line
RECURSIVE FitCount(_, _, _)
FitCount(chunks, width, cur_len) ==
    IF chunks = <<>> THEN 0
    ELSE IF cur_len + Len(chunks[1]) <= width
         THEN 1 + FitCount(Tail(chunks), width, cur_len + Len(chunks[1]))
         ELSE 0

RECURSIVE Concat(_)
Concat(seqs) == IF seqs = <<>> THEN <<>> ELSE Head(seqs) \o Concat(Tail(seqs))

\* textwrap._wrap_chunks, the start of a line: whitespace is dropped at the
\* start of every line but the first
DropLeadingBlank(chunks, lines) ==
    IF lines # <<>> /\ IsBlank(chunks[1]) THEN Tail(chunks) ELSE chunks

\* textwrap._handle_long_word: the next word is cut at space_left characters
BreakLongWord(fit, rest, space_left) ==
    [cur_line |-> Append(fit, SubSeq(rest[1], 1, space_left)),
     rest |-> <<SubSeq(rest[1], space_left + 1, Len(rest[1]))>> \o Tail(rest)]

\* textwrap._wrap_chunks: the chunks of the current line and those left,
\* when the first k chunks fit; a word longer than the width is broken
TakeLine(cs, k, width) ==
    IF k < Len(cs) /\ Len(cs[k + 1]) > width
    THEN BreakLongWord(SubSeq(cs, 1, k), SubSeq(cs, k + 1, Len(cs)),
                       width - Len(Concat(SubSeq(cs, 1, k))))
    ELSE [cur_line |-> SubSeq(cs, 1, k), rest |-> SubSeq(cs, k + 1, Len(cs))]

\* textwrap._wrap_chunks, the end of a line: whitespace is dropped
DropTrailingBlank(cur_line) ==
    IF cur_line # <<>> /\ IsBlank(cur_line[Len(cur_line)])
    THEN SubSeq(cur_line, 1, Len(cur_line) - 1)
    ELSE cur_line

\* textwrap._wrap_chunks: a line that is not empty is kept
AppendLine(lines, cur_line) ==
    IF cur_line # <<>> THEN Append(lines, Concat(cur_line)) ELSE lines

\* textwrap._wrap_chunks with the defaults of textwrap.wrap
RECURSIVE WrapChunks(_, _, _)
RECURSIVE WrapTaken(_, _, _)
RECURSIVE WrapFrom(_, _, _)

WrapTaken(taken, width, lines) ==
    WrapChunks(taken.rest, width, AppendLine(lines, DropTrailingBlank(taken.cur_line)))

WrapFrom(cs, width, lines) ==
    IF cs = <<>> THEN lines
    ELSE WrapTaken(TakeLine(cs, FitCount(cs, width, 0), width), width, lines)

WrapChunks(chunks, width, lines) ==
    IF chunks = <<>> THEN lines
    ELSE WrapFrom(DropLeadingBlank(chunks, lines), width, lines)

\* textwrap.wrap(text, width=width)
textwrap_wrap(text, width) == WrapChunks(ChunksFrom(text, <<>>), width, <<>>)

\* a loop that drops the character at every break, blank or not
RECURSIVE WrapByWidthDropping(_, _, _, _, _)
WrapByWidthDropping(text, width, lines, current, current_w) ==
    IF text = <<>> THEN (IF current # <<>> THEN Append(lines, current) ELSE lines)
    ELSE IF current_w + CharWidth(Head(text)) > width /\ current # <<>>
         THEN WrapByWidthDropping(Tail(text), width, Append(lines, current), <<>>, 0)
         ELSE WrapByWidthDropping(Tail(text), width, lines, Append(current, Head(text)),
                                  current_w + CharWidth(Head(text)))

\* _wrap_cjk, lines 45-60: the loop over the characters
RECURSIVE WrapByWidth(_, _, _, _, _)
WrapByWidth(text, width, lines, current, current_w) ==
    IF text = <<>> THEN (IF current # <<>> THEN Append(lines, current) ELSE lines)
    ELSE
      LET ch == Head(text)
          cw == CharWidth(ch)
      IN  IF current_w + cw > width /\ current # <<>>
          THEN IF ch = " "
               THEN WrapByWidth(Tail(text), width, Append(lines, current), <<>>, 0)
               ELSE WrapByWidth(Tail(text), width, Append(lines, current), <<ch>>, cw)
          ELSE WrapByWidth(Tail(text), width, lines, Append(current, ch), current_w + cw)

\* a list `or [""]`
OrEmptyLine(lines) == IF lines = <<>> THEN << <<>> >> ELSE lines

\* _wrap_cjk
wrap_cjk(text, width) ==
    IF IsBlank(text) THEN << <<>> >>
    ELSE IF IsAscii(text) THEN OrEmptyLine(textwrap_wrap(text, width))
    ELSE OrEmptyLine(WrapByWidth(text, width, <<>>, <<>>, 0))

----------------------------------------------------------------------------
(* Pagination of the current chapter (reader_screen.py, lines 182-262).    *)
(* A parsed book is a record [chapters, toc]: chapters is the sequence of  *)
(* the chapters' paragraph lists, toc the chapter indices of the table of  *)
(* contents.  A page is a sequence of lines, its range the pair of the     *)
(* 0-based indices of its first and last paragraph.  The operators take    *)
(* the reader's state s as a record of the fields of ReaderScreen.         *)

\* lines 227-229 and 234-236
PLACEHOLDER_PAGE == << <<"(empty)">> >>
PLACEHOLDER_RANGE == <<0, 0>>

\* the prefix of a translation line, f"  \u25b8 {cached}" (line 251)
TRANSLATION_PREFIX == <<" ", " ", "TRIANGLE", " ">>

\* current_chapter, lines 104-108
current_chapter(s) ==
    IF ~IsNone(s.content) /\ 0 <= s.chapter_idx
          /\ s.chapter_idx < Len(Val(s.content).chapters)
    THEN Some(Val(s.content).chapters[s.chapter_idx + 1])
    ELSE None

\* _get_content_dimensions, lines 192-201
get_content_dimensions(widget_size) ==
    LET w == widget_size.width - 4
        h == widget_size.height
    IN  IF w < 10 \/ h < 3 THEN [w |-> 72, h |-> 20] ELSE [w |-> w, h |-> h]

\* n copies of v
Repeat(v, n) == [i \in 1..n |-> v]

\* _wrap_chapter, lines 250-255: the lines of a paragraph's translation
TranslationLines(cached, width) ==
    IF ~IsNone(cached) /\ Val(cached) # <<>>
    THEN wrap_cjk(TRANSLATION_PREFIX \o Val(cached), width)
    ELSE <<>>

\* _wrap_chapter, lines 246-260: the lines of the paragraph with index pi,
\* those of its translation and the spacing lines after it
ParagraphLines(paragraphs, pi, width, s) ==
    wrap_cjk(paragraphs[pi + 1], width)
    \o TranslationLines(IF s.translate_mode
                        THEN get_cached(s.db_cache, paragraphs[pi + 1]) ELSE None, width)
    \o (IF pi < Len(paragraphs) - 1 THEN Repeat(<<>>, s.line_spacing) ELSE <<>>)

\* lines 247-248, 254-255 and 259-260: the lines of paragraph pi go before
\* the lines of the later paragraphs
ExtendLines(own, pi, rest) ==
    [lines |-> own \o rest.lines,
     line_to_para |-> Repeat(pi, Len(own)) \o rest.line_to_para]

\* _wrap_chapter, lines 238-262: the lines of the paragraphs from index pi
\* (0-based) on, each with the index of the paragraph it belongs to
RECURSIVE WrapChapterFrom(_, _, _, _)
WrapChapterFrom(paragraphs, pi, width, s) ==
    IF pi >= Len(paragraphs) THEN [lines |-> <<>>, line_to_para |-> <<>>]
    ELSE ExtendLines(ParagraphLines(paragraphs, pi, width, s), pi,
                     WrapChapterFrom(paragraphs, pi + 1, width, s))

wrap_chapter(paragraphs, width, s) == WrapChapterFrom(paragraphs, 0, width, s)

\* a range that is the paragraph of the page's first line only
PageRangeStartOnly(line_to_para, page_height, i) ==
    IF i < Len(line_to_para) THEN <<line_to_para[i + 1], line_to_para[i + 1]>>
    ELSE PLACEHOLDER_RANGE

\* _reflow, lines 225-232: the range of the page that starts at line i
PageRange(line_to_para, page_height, i) ==
    IF i < Len(line_to_para) /\ Min(i + page_height - 1, Len(line_to_para) - 1) >= 0
    THEN <<line_to_para[i + 1],
           line_to_para[Max(0, Min(i + page_height - 1, Len(line_to_para) - 1)) + 1]>>
    ELSE PLACEHOLDER_RANGE

\* a page and its range before the later ones
ConsPage(page_lines, range, rest) ==
    [pages |-> <<page_lines>> \o rest.pages, ranges |-> <<range>> \o rest.ranges]

\* pages cut one line too long, all_lines[i : i + page_height + 1]
RECURSIVE CutPagesOverlap(_, _, _)
CutPagesOverlap(wc, page_height, i) ==
    IF i >= Len(wc.lines) THEN [pages |-> <<>>, ranges |-> <<>>]
    ELSE ConsPage(SubSeq(wc.lines, i + 1, Min(i + page_height + 1, Len(wc.lines))),
                  PageRange(wc.line_to_para, page_height, i),
                  CutPagesOverlap(wc, page_height, i + page_height))

\* _reflow, lines 220-232: the pages cut from line i (0-based) on
RECURSIVE CutPages(_, _, _)
CutPages(wc, page_height, i) ==
    IF i >= Len(wc.lines) THEN [pages |-> <<>>, ranges |-> <<>>]
    ELSE ConsPage(SubSeq(wc.lines, i + 1, Min(i + page_height, Len(wc.lines))),
                  PageRange(wc.line_to_para, page_height, i),
                  CutPages(wc, page_height, i + page_height))

\* a _reflow that wraps to the whole width in dual mode too
PageWidthSingle(dual, dims) == Max(20, dims.w)

\* _reflow, lines 212-215
PageWidth(dual, dims) == IF dual THEN Max(20, (dims.w - 3) \div 2) ELSE Max(20, dims.w)

\* a _reflow without lines 234-236
OrPlaceholderNone(cut) == cut

\* _reflow, lines 234-236
OrPlaceholder(cut) ==
    IF cut.pages = <<>>
    THEN [pages |-> <<PLACEHOLDER_PAGE>>, ranges |-> <<PLACEHOLDER_RANGE>>]
    ELSE cut

\* _reflow, lines 210-232: the pages of a chapter
PaginateChapter(paragraphs, dims, s) ==
    CutPages(wrap_chapter(paragraphs, PageWidth(s.dual_mode, dims), s), Max(3, dims.h), 0)

\* _reflow, lines 203-236: the pages and ranges of the current chapter
Paginate(s) ==
    IF IsNone(current_chapter(s))
    THEN [pages |-> <<PLACEHOLDER_PAGE>>, ranges |-> <<PLACEHOLDER_RANGE>>]
    ELSE OrPlaceholder(PaginateChapter(Val(current_chapter(s)),
                                       get_content_dimensions(s.size), s))

\* _reflow: the assignments to _pages and _page_para_ranges
SetPages(s, r) == [s EXCEPT !.pages = r.pages, !.page_para_ranges = r.ranges]

\* _reflow
reflow(s) == SetPages(s, Paginate(s))

----------------------------------------------------------------------------
(* The handlers of ReaderScreen as functions of the reader's state.  Once  *)
(* s.crashed is set, the rest of the handler does not run.                 *)

\* Screen.notify
notify(s, kind) == IF s.crashed THEN s ELSE [s EXCEPT !.notes = Append(@, kind)]

\* _render_page, lines 264-294: writes the widget only
render_page(s) == s

\* _update_header, lines 296-338: line 316 divides by len(chapters)
update_header(s) ==
    IF s.crashed \/ IsNone(s.content) THEN s
    ELSE IF Len(s.pages) > 0 /\ Len(Val(s.content).chapters) = 0
         THEN [s EXCEPT !.crashed = TRUE]
         ELSE s

\* _reflow_and_render with lines 186-188 left out
ClampPageNone(idx, n, dual) == idx

\* _reflow_and_render, lines 186-188
ClampPage(idx, n, dual) ==
    LET p == Max(0, Min(idx, n - 1))
    IN  IF dual /\ p % 2 # 0 THEN Max(0, p - 1) ELSE p

\* _reflow_and_render, lines 186-188, after _reflow
ClampCursor(r) ==
    [r EXCEPT !.page_idx = ClampPage(r.page_idx, Len(r.pages), r.dual_mode)]

\* _reflow_and_render, lines 182-190
reflow_and_render(s) ==
    IF s.crashed \/ ~s.loaded \/ IsNone(s.content) THEN s
    ELSE update_header(render_page(ClampCursor(reflow(s))))

\* a _save_progress that drops a failed write
save_progress_best_effort(s) ==
    IF s.crashed \/ IsNone(s.content) \/ ~s.writable THEN s
    ELSE [s EXCEPT !.progress = Some([chapter_index |-> s.chapter_idx,
                                       scroll_offset |-> s.page_idx])]

\* _save_progress, lines 395-411, and Database.save_progress: the exception
\* of a failed write leaves _save_progress and the handler that called it
save_progress(s) ==
    IF s.crashed \/ IsNone(s.content) THEN s
    ELSE IF ~s.writable THEN [s EXCEPT !.crashed = TRUE]
    ELSE [s EXCEPT !.progress = Some([chapter_index |-> s.chapter_idx,
                                       scroll_offset |-> s.page_idx])]

\* @work(exclusive=True) with no cancellation of the earlier workers
CancelGroupNone(ws) == ws

\* @work(exclusive=True), line 548: the earlier workers of the group are
\* cancelled, and with them the translate_batch calls they await
CancelGroup(ws) ==
    [i \in DOMAIN ws |->
        [ws[i] EXCEPT !.st = "cancelled", !.batches = <<>>,
                      !.was = IF ws[i].st = "cancelled" THEN @ ELSE ws[i].st]]

\* the workers a new one replaces
MarkSuperseded(ws) == [i \in DOMAIN ws |-> [ws[i] EXCEPT !.superseded = TRUE]]

\* a worker whose body has not started; issued is the cursor at the call,
\* was the state a cancelled worker was cancelled in
NewWorker(s) ==
    [st |-> "pending", superseded |-> FALSE, was |-> "none",
     issued |-> <<s.chapter_idx, s.page_idx>>, batches |-> <<>>]

\* the call of _do_translate_pages, line 548
do_translate_pages(s) ==
    IF s.crashed THEN s
    ELSE [s EXCEPT !.workers = Append(CancelGroup(MarkSuperseded(@)), NewWorker(s))]

\* _translate_current_and_prefetch, lines 543-546
translate_current_and_prefetch(s) ==
    IF s.crashed \/ ~s.translate_mode THEN s ELSE do_translate_pages(s)

\* action_next_page, lines 342-358
NextPage(s) ==
    LET step == IF s.dual_mode THEN 2 ELSE 1
        new_idx == s.page_idx + step
    IN  IF new_idx < Len(s.pages)
        THEN translate_current_and_prefetch(save_progress(update_header(render_page(
                 [s EXCEPT !.page_idx = new_idx]))))
        ELSE IF ~IsNone(s.content) /\ s.chapter_idx < Len(Val(s.content).chapters) - 1
        THEN translate_current_and_prefetch(save_progress(reflow_and_render(
                 [s EXCEPT !.chapter_idx = @ + 1, !.page_idx = 0])))
        ELSE s

\* action_prev_page with lines 371-372 left out
LastPageAnyParity(r) == [r EXCEPT !.page_idx = Max(0, Len(r.pages) - 1)]

\* action_prev_page, lines 370-373: the last page, the last left page in
\* dual mode
LastPage(r) ==
    [r EXCEPT !.page_idx =
        IF r.dual_mode /\ Max(0, Len(r.pages) - 1) % 2 # 0
        THEN Max(0, Max(0, Len(r.pages) - 1) - 1)
        ELSE Max(0, Len(r.pages) - 1)]

\* action_prev_page, lines 360-377
PrevPage(s) ==
    IF s.page_idx - (IF s.dual_mode THEN 2 ELSE 1) >= 0
    THEN save_progress(update_header(render_page(
             [s EXCEPT !.page_idx = @ - (IF s.dual_mode THEN 2 ELSE 1)])))
    ELSE IF s.chapter_idx > 0
    THEN save_progress(update_header(render_page(
             LastPage(reflow([s EXCEPT !.chapter_idx = @ - 1])))))
    ELSE s

\* action_next_chapter, lines 379-386
NextChapter(s) ==
    IF ~IsNone(s.content) /\ s.chapter_idx < Len(Val(s.content).chapters) - 1
    THEN translate_current_and_prefetch(save_progress(reflow_and_render(
             [s EXCEPT !.chapter_idx = @ + 1, !.page_idx = 0])))
    ELSE s

\* action_prev_chapter, lines 388-393
PrevChapter(s) ==
    IF s.chapter_idx > 0
    THEN save_progress(reflow_and_render([s EXCEPT !.chapter_idx = @ - 1, !.page_idx = 0]))
    ELSE s

\* on_toc_selected, lines 448-455
TocSelected(s, ch_idx) ==
    save_progress(reflow_and_render([s EXCEPT !.chapter_idx = ch_idx, !.page_idx = 0]))

\* on_bookmark_selected, lines 457-464
BookmarkSelected(s, bm) ==
    save_progress(reflow_and_render([s EXCEPT !.chapter_idx = bm[1], !.page_idx = bm[2]]))

\* action_add_bookmark, lines 466-479, and Database.add_bookmark
AddBookmark(s) ==
    IF ~s.writable THEN [s EXCEPT !.crashed = TRUE]
    ELSE notify(update_header(
             [s EXCEPT !.bookmarks = @ \cup {<<s.chapter_idx, s.page_idx>>}]), "bookmark")

\* action_toggle_toc, lines 425-429
ToggleToc(s) ==
    IF ~s.toc_visible THEN reflow_and_render([s EXCEPT !.toc_visible = TRUE])
    ELSE [s EXCEPT !.toc_visible = FALSE]

\* action_toggle_bookmarks and _refresh_bookmarks, lines 431-446
ToggleBookmarks(s) ==
    IF ~s.bm_visible
    THEN reflow_and_render([s EXCEPT !.bm_visible = TRUE, !.bm_list = s.bookmarks])
    ELSE [s EXCEPT !.bm_visible = FALSE]

\* action_increase_spacing, lines 614-617
IncreaseSpacing(s) ==
    IF s.line_spacing < 3 THEN reflow_and_render([s EXCEPT !.line_spacing = @ + 1]) ELSE s

\* action_decrease_spacing, lines 619-622
DecreaseSpacing(s) ==
    IF s.line_spacing > 0 THEN reflow_and_render([s EXCEPT !.line_spacing = @ - 1]) ELSE s

\* action_toggle_dual, lines 624-626
ToggleDual(s) == reflow_and_render([s EXCEPT !.dual_mode = ~@])

\* on_resize, lines 634-635, after the widget took its new size
Resize(s, new_size) == reflow_and_render([s EXCEPT !.size = new_size])

\* an is_configured that knows no credential-free provider
is_configured_keyed(p) ==
    IF IsNone(p) THEN FALSE
    ELSE Val(p).api_key # <<>> /\ Val(p).base_url # <<>>

\* TranslationEngine.is_configured, lines 34-41
is_configured(p) ==
    IF IsNone(p) THEN FALSE
    ELSE IF Val(p).name = "ollama" THEN Val(p).base_url # <<>>
    ELSE Val(p).api_key # <<>> /\ Val(p).base_url # <<>>

\* _has_untranslated_before_current, lines 532-533 and 523-525: the
\* paragraphs with indices pi..n-1 of a chapter, in order.  "error" is the
\* IndexError of an index past the end of the list.
RECURSIVE ScanParagraphs(_, _, _, _)
ScanParagraphs(db, paragraphs, pi, n) ==
    IF pi >= n THEN "no"
    ELSE IF pi >= Len(paragraphs) THEN "error"
    ELSE IF ~is_translated(db, paragraphs[pi + 1]) THEN "yes"
    ELSE ScanParagraphs(db, paragraphs, pi + 1, n)

\* lines 523-526: the chapters with indices ci..n-1, in order
RECURSIVE ScanChapters(_, _, _, _)
ScanChapters(db, chapters, ci, n) ==
    IF ci >= n THEN "no"
    ELSE IF ci >= Len(chapters) THEN "error"
    ELSE IF ScanParagraphs(db, chapters[ci + 1], 0, Len(chapters[ci + 1])) = "yes"
    THEN "yes"
    ELSE ScanChapters(db, chapters, ci + 1, n)

\* chapters[chapter_idx]: a negative index counts from the end
ListIndex(n, i) == IF i < 0 THEN i + n ELSE i

\* lines 527-534: the paragraphs of the current chapter before the first
\* paragraph of the current page
ScanCurrent(s, chapters, at) ==
    IF at < 0 \/ at >= Len(chapters) THEN "error"
    ELSE ScanParagraphs(s.db_cache, chapters[at + 1], 0,
                        IF s.page_idx < Len(s.page_para_ranges)
                        THEN s.page_para_ranges[s.page_idx + 1][1] ELSE 0)

\* _has_untranslated_before_current with lines 523-526 left out
ScanThenCurrentOnly(before, s, chapters) ==
    ScanCurrent(s, chapters, ListIndex(Len(chapters), s.chapter_idx))

\* the outcome of the earlier chapters decides unless it is "no"
ScanThen(before, s, chapters) ==
    IF before # "no" THEN before
    ELSE ScanCurrent(s, chapters, ListIndex(Len(chapters), s.chapter_idx))

\* _has_untranslated_before_current, lines 519-534
has_untranslated_before_current(s) ==
    IF IsNone(s.content) THEN "no"
    ELSE ScanThen(ScanChapters(s.db_cache, Val(s.content).chapters, 0, s.chapter_idx),
                  s, Val(s.content).chapters)

\* action_toggle_translate, lines 508-513: the jump to the start of the book
JumpToStart(s) ==
    notify(save_progress(reflow_and_render(
        [s EXCEPT !.chapter_idx = 0, !.page_idx = 0])), "jumped")

\* TranslationEngine.reset_cancel
reset_cancel(s) == IF s.crashed THEN s ELSE [s EXCEPT !.cancel = FALSE]

\* action_toggle_translate, lines 507-517, has_gap being the outcome of
\* _has_untranslated_before_current
EnterTranslate(s, has_gap) ==
    IF has_gap = "error" THEN [s EXCEPT !.crashed = TRUE]
    ELSE translate_current_and_prefetch(reset_cancel(
             IF has_gap = "yes" THEN JumpToStart(s) ELSE s))

\* action_toggle_translate, lines 504-507
TranslateOn(s) == EnterTranslate(s, has_untranslated_before_current(s))

\* action_toggle_translate with lines 495-496 left out
ToggleTranslateUnchecked(s) ==
    IF s.translate_mode
    THEN notify(reflow_and_render([s EXCEPT !.translate_mode = FALSE, !.cancel = TRUE]),
                "mode_off")
    ELSE TranslateOn(notify([s EXCEPT !.translate_mode = TRUE], "mode_on"))

\* action_toggle_translate, lines 494-517
ToggleTranslate(s) ==
    IF ~is_configured(s.provider) THEN notify(s, "not_configured")
    ELSE IF s.translate_mode
    THEN notify(reflow_and_render([s EXCEPT !.translate_mode = FALSE, !.cancel = TRUE]),
                "mode_off")
    ELSE TranslateOn(notify([s EXCEPT !.translate_mode = TRUE], "mode_on"))

\* list[start:stop] for 0 <= start
Slice(list, start, stop) == SubSeq(list, start + 1, Min(stop, Len(list)))

\* _get_page_paragraphs, lines 536-541
get_page_paragraphs(s, pidx) ==
    LET chapter == current_chapter(s)
    IN  IF IsNone(chapter) \/ pidx >= Len(s.page_para_ranges) THEN <<>>
        ELSE Slice(Val(chapter), s.page_para_ranges[pidx + 1][1],
                   s.page_para_ranges[pidx + 1][2] + 1)

\* _do_translate_pages, lines 551-555
PagesToTranslate(s) ==
    <<s.page_idx>> \o SelectSeq(<<s.page_idx + 1, s.page_idx + 2>>,
                                LAMBDA nxt : nxt < Len(s.pages))

\* the translate_batch call for the paragraphs of page pidx up to its first
\* await (engine.py lines 70-86 and 191-193): it is over if nothing misses,
\* it raises if no provider is configured, otherwise its request is in
\* flight; start is the chapter index of its first paragraph (line 540)
StartedBatch(s, pidx, paragraphs, idx) ==
    [page |-> pidx, paragraphs |-> paragraphs, idx |-> idx,
     start |-> IF pidx < Len(s.page_para_ranges)
               THEN s.page_para_ranges[pidx + 1][1] ELSE 0,
     st |-> IF idx = <<>> THEN "done"
            ELSE IF IsNone(s.provider) THEN "failed" ELSE "inflight",
     after_failure |-> FALSE]

BatchOf(s, pidx, paragraphs) ==
    StartedBatch(s, pidx, paragraphs, UncachedIndices(s.db_cache, paragraphs))

PageBatch(s, pidx) == BatchOf(s, pidx, get_page_paragraphs(s, pidx))

\* _do_translate_pages, lines 557-561: one call for each page with paragraphs
BatchesOf(s, pidxs) == [k \in 1..Len(pidxs) |-> PageBatch(s, pidxs[k])]

PageTasks(s) ==
    SelectSeq(BatchesOf(s, PagesToTranslate(s)), LAMBDA b : b.paragraphs # <<>>)

\* a sequence without its i-th element
RemoveAt(seq, i) == SubSeq(seq, 1, i - 1) \o SubSeq(seq, i + 1, Len(seq))

\* _do_translate_pages, lines 550-568, up to the await of the gather: with no
\* task the body runs to its end
GatherTasks(s, i, tasks) ==
    IF tasks = <<>>
    THEN reflow_and_render([s EXCEPT !.workers = RemoveAt(@, i)])
    ELSE [s EXCEPT !.workers[i].st = "running", !.workers[i].batches = tasks]

WorkerBegin(s, i) == GatherTasks(s, i, PageTasks(s))

\* translate_batch lines 86-99 for the b-th call of worker i; after_failure
\* records that another call of the worker had raised before
BatchDone(s, i, b, response) ==
    [s EXCEPT !.db_cache =
                  WriteBack(@, s.workers[i].batches[b].paragraphs,
                            s.workers[i].batches[b].idx,
                            CallApiBatchParts(response, Len(s.workers[i].batches[b].idx)),
                            ProviderName(s.provider)),
              !.workers[i].batches[b].st = "done",
              !.workers[i].batches[b].after_failure =
                  \E b2 \in DOMAIN s.workers[i].batches :
                      s.workers[i].batches[b2].st = "failed"]

\* a gather without return_exceptions=True: the first exception ends the
\* worker, and the other calls never write
BatchFailedEndsWorker(s, i, b) ==
    [s EXCEPT !.workers[i].batches =
        [b2 \in DOMAIN @ |-> [@[b2] EXCEPT !.st = IF @ = "done" THEN "done" ELSE "failed"]]]

\* _call_api raises in the b-th call of worker i; the gather of line 563
\* collects the exception (return_exceptions=True)
BatchFailed(s, i, b) == [s EXCEPT !.workers[i].batches[b].st = "failed"]

\* lines 564-566: one notification for each call that raised
RECURSIVE NotifyErrors(_, _)
NotifyErrors(s, batches) ==
    IF batches = <<>> THEN s
    ELSE NotifyErrors(IF Head(batches).st = "failed"
                      THEN notify(s, "translation_error") ELSE s, Tail(batches))

\* _do_translate_pages, lines 563-568, once the gather has returned
WorkerEnd(s, i) ==
    reflow_and_render(NotifyErrors([s EXCEPT !.workers = RemoveAt(@, i)],
                                   s.workers[i].batches))

\* _all_paragraphs, lines 110-116
all_paragraphs(s) == IF IsNone(s.content) THEN <<>> ELSE Concat(Val(s.content).chapters)

\* _total_paragraph_count, lines 118-121
total_paragraph_count(s) == Len(all_paragraphs(s))

\* TranslationEngine.count_translated, engine.py lines 61-66
count_translated(db, paragraphs) ==
    Len(SelectSeq(paragraphs, LAMBDA para : is_translated(db, para)))

\* _translated_count, lines 123-126
translated_count(s) == count_translated(s.db_cache, all_paragraphs(s))

\* the line of 60 "=" as one token, and the title of a chapter
RULE == <<"=====">>
TITLE == <<"Chapter">>

\* _do_export, lines 603-607: a paragraph, its translation if the cached
\* text is not empty, and an empty part
ExportParagraph(para, cached) ==
    <<para>>
    \o (IF ~IsNone(cached) /\ Val(cached) # <<>>
        THEN <<TRANSLATION_PREFIX \o Val(cached)>> ELSE <<>>)
    \o << <<>> >>

\* _do_export, lines 598-607: the parts of a chapter
ExportChapter(db, paragraphs) ==
    <<RULE, TITLE, RULE \o <<"\n">> >>
    \o Concat([k \in DOMAIN paragraphs |->
                  ExportParagraph(paragraphs[k], get_cached(db, paragraphs[k]))])

\* _do_export, lines 597-609: the text written to the file
ExportText(db, chapters) ==
    Join(<<"\n">>, Concat([c \in DOMAIN chapters |-> ExportChapter(db, chapters[c])]))

\* _do_export, lines 589-610
do_export(s) ==
    IF IsNone(s.content) THEN s
    ELSE notify([s EXCEPT !.export_file =
                     Some(ExportText(s.db_cache, Val(s.content).chapters))], "exported")

\* action_export_bilingual without the test of lines 580-585
ExportUnchecked(s, done, total) == do_export(s)

\* action_export_bilingual, lines 580-587
ExportIfComplete(s, done, total) ==
    IF done < total
    THEN notify([s EXCEPT !.export_report = Some([done |-> done, total |-> total])],
                "incomplete")
    ELSE do_export(s)

\* action_export_bilingual, lines 573-587
Export(s) ==
    IF IsNone(s.content) THEN s
    ELSE ExportIfComplete(s, translated_count(s), total_paragraph_count(s))

\* _after_load, lines 160-178, and Database.get_progress
AfterLoad(s) ==
    IF IsNone(s.content) THEN s
    ELSE reflow_and_render(
           IF ~IsNone(s.progress)
           THEN [s EXCEPT !.chapter_idx = Min(Val(s.progress).chapter_index,
                                              Len(Val(s.content).chapters) - 1),
                          !.page_idx = Val(s.progress).scroll_offset,
                          !.loaded = TRUE]
           ELSE [s EXCEPT !.chapter_idx = 0, !.page_idx = 0, !.loaded = TRUE])

\* ReaderScreen.__init__, lines 87-98, and on_mount, lines 140-143, with the
\* defaults of AppConfig (config.py lines 42-43); the sidebars are not
\* displayed (themes.py, display: none)
ReaderConstructed ==
    /\ content = None
    /\ pages = <<>>
    /\ page_para_ranges = <<>>
    /\ chapter_idx = 0
    /\ page_idx = 0
    /\ dual_mode = FALSE
    /\ line_spacing = 1
    /\ loaded = FALSE
    /\ translate_mode = FALSE
    /\ bm_list = {}
    /\ toc_visible = FALSE
    /\ bm_visible = FALSE
    /\ export_file = None
    /\ export_report = None
    /\ workers = <<>>
    /\ notes = <<>>
    /\ crashed = FALSE
    /\ events = 0

----------------------------------------------------------------------------
(* EngineSpec: one translate_batch call against an arbitrary cache, the    *)
(* cache writes of other coroutines while it awaits the provider, and a    *)
(* second call on the same paragraphs.                                     *)

\* paragraphs handed to translate_batch: a whitespace-only one and two texts
EngineTexts == {<<" ">>, <<"a">>, <<"b">>}

\* tokens of a provider's response content
RespTokens == {"---", "x", " "}

\* translations a cache row may hold before the call
OldTranslations == {<<>>, <<"x">>}

\* what another coroutine's translate_batch writes meanwhile
ConcurrentTranslations == {<<"y">>}

\* provider configurations: none selected (an unknown BOOKWORM_TRANSLATE_PROVIDER),
\* or one of config.py's providers
ProviderConfigs ==
    {None, Some([name |-> "qwen", api_key |-> <<"k">>, base_url |-> <<"u">>])}

\* the caches an earlier run may have left
InitCaches ==
    LET texts == {t \in EngineTexts : ~IsBlank(t)}
        rows(S) == [ {MakeHash(t, target_lang) : t \in S} -> OldTranslations ]
    IN  UNION { { [h \in DOMAIN f |->
                     [source_text |-> CHOOSE t \in S : MakeHash(t, target_lang) = h,
                      translated_text |-> f[h],
                      target_lang |-> target_lang,
                      provider |-> "old"]] : f \in rows(S) } : S \in SUBSET texts }

IdleCall ==
    [pc |-> "idle", paragraphs |-> <<>>, results |-> <<>>, idx |-> <<>>,
     ret |-> <<>>, db0 |-> <<>>, db1 |-> <<>>, content |-> None,
     interfered |-> FALSE]

\* translate_batch up to its first await (lines 70-86 and _call_api lines
\* 191-221): the call returns at once when nothing is uncached, raises when
\* no provider is selected, and otherwise posts one request and awaits it
StartedCall(db, paragraphs) ==
    LET results == LookupResults(db, paragraphs)
        idx == UncachedIndices(db, paragraphs)
        base == [pc |-> "idle", paragraphs |-> paragraphs, results |-> results,
                 idx |-> idx, ret |-> <<>>, db0 |-> db, db1 |-> db,
                 content |-> None, interfered |-> FALSE]
    IN  IF idx = <<>> THEN [base EXCEPT !.pc = "returned", !.ret = OrEmpty(results)]
        ELSE IF IsNone(provider) THEN [base EXCEPT !.pc = "raised"]
        ELSE [base EXCEPT !.pc = "await"]

StartedRequests(db, paragraphs) ==
    IF UncachedIndices(db, paragraphs) # <<>> /\ ~IsNone(provider)
    THEN <<RequestPayload(UncachedTexts(db, paragraphs))>>
    ELSE <<>>

EngineInit ==
    /\ db_cache \in InitCaches
    /\ provider \in ProviderConfigs
    /\ call = IdleCall
    /\ requests = <<>>
    /\ prev = None
    /\ all_call = IdleAll
    /\ engine = IdleEngine
    /\ library = EmptyLibrary
    /\ ReaderConstructed
    /\ budget = 0
    /\ size = [width |-> 0, height |-> 0]
    /\ load_st = "running"
    /\ progress = None
    /\ bookmarks = {}
    /\ cancel = FALSE

BatchStart(paragraphs) ==
    /\ call.pc = "idle"
    /\ call' = StartedCall(db_cache, paragraphs)
    /\ requests' = StartedRequests(db_cache, paragraphs)
    /\ UNCHANGED <<db_cache, provider, prev>>
    /\ UNCHANGED readerVars

\* the provider answers with `response` (translate_batch lines 86-99)
BatchResponse(response) ==
    /\ call.pc = "await"
    /\ LET parts == CallApiBatchParts(response, Len(call.idx))
       IN  /\ db_cache' = WriteBack(db_cache, call.paragraphs, call.idx, parts,
                                    ProviderName(provider))
           /\ call' = [call EXCEPT
                         !.pc = "returned",
                         !.results = FillResults(call.results, call.idx, parts),
                         !.ret = OrEmpty(FillResults(call.results, call.idx, parts)),
                         !.db1 = db_cache,
                         !.content = Some(response)]
    /\ UNCHANGED <<provider, requests, prev>>
    /\ UNCHANGED readerVars

\* _call_api lines 220-244: an HTTP error status, a response without
\* choices[0].message.content, a transport error (each re-raised as
\* RuntimeError), or any other exception (raised as it is)
FailureKinds == {"http_status", "bad_format", "request_error", "other"}

\* a failure handler that caches "" for every paragraph of the failed request
BatchFailNegativeCache(kind) ==
    /\ call.pc = "await"
    /\ db_cache' = WriteBack(db_cache, call.paragraphs, call.idx,
                             [j \in 1..Len(call.idx) |-> <<>>], ProviderName(provider))
    /\ call' = [call EXCEPT !.pc = "raised", !.db1 = db_cache]
    /\ UNCHANGED <<provider, requests, prev>>
    /\ UNCHANGED readerVars

BatchFail(kind) ==
    /\ call.pc = "await"
    /\ call' = [call EXCEPT !.pc = "raised", !.db1 = db_cache]
    /\ UNCHANGED <<db_cache, provider, requests, prev>>
    /\ UNCHANGED readerVars

\* a cache_translation by another coroutine while this call awaits
ConcurrentWrite(text, translated) ==
    /\ call.pc = "await"
    /\ db_cache' = cache_translation(db_cache, MakeHash(text, target_lang), text,
                                     translated, target_lang, ProviderName(provider))
    /\ call' = [call EXCEPT !.interfered = TRUE]
    /\ UNCHANGED <<provider, requests, prev>>
    /\ UNCHANGED readerVars

\* a second translate_batch on the paragraphs of the call that just returned
BatchRepeat ==
    /\ call.pc = "returned"
    /\ IsNone(prev)
    /\ prev' = Some([paragraphs |-> call.paragraphs, ret |-> call.ret,
                     idx |-> call.idx, requests |-> requests,
                     interfered |-> call.interfered])
    /\ call' = StartedCall(db_cache, call.paragraphs)
    /\ requests' = StartedRequests(db_cache, call.paragraphs)
    /\ UNCHANGED <<db_cache, provider>>
    /\ UNCHANGED readerVars

EngineNext ==
    \/ \E paragraphs \in SeqsUpTo(EngineTexts, MaxParas) : BatchStart(paragraphs)
    \/ \E response \in SeqsUpTo(RespTokens, MaxRespLen) : BatchResponse(response)
    \/ \E kind \in FailureKinds : BatchFail(kind)
    \/ \E text \in {t \in EngineTexts : ~IsBlank(t)}, translated \in ConcurrentTranslations :
          ConcurrentWrite(text, translated)
    \/ BatchRepeat

EngineSpec == EngineInit /\ [][EngineNext]_vars

----------------------------------------------------------------------------
(* TranslateAllSpec: one translate_all call against an arbitrary cache,    *)
(* with cancel() and reset_cancel() called while it awaits.                *)

\* a paragraph that is in no cache at the start
TextC == <<"c">>

\* the paragraph lists: a few paragraphs, cached or not, before none, a
\* full chunk, or a full chunk and one more of paragraphs not yet cached
AllParagraphLists ==
    { prefix \o [k \in 1..n |-> TextC] :
         prefix \in SeqsUpTo(EngineTexts, MaxAllPrefix),
         n \in {0, BATCH_MAX_PARAGRAPHS, BATCH_MAX_PARAGRAPHS + 1} }

\* the provider's answers to a request for n texts: nothing, one
\* translation, or n translations
AllAnswers(n) == {<<>>, <<"x">>, Join(<<"---">>, [k \in 1..n |-> <<"x">>])}

\* everything translate_all neither reads nor writes
allFrame == <<provider, call, requests, prev, engine, library, content, pages, page_para_ranges,
              chapter_idx, page_idx, dual_mode, line_spacing, loaded,
              translate_mode, load_st, size, progress, bookmarks, bm_list,
              toc_visible, bm_visible, export_file, export_report, workers,
              notes, crashed, events, budget>>

TranslateAllInit ==
    /\ db_cache \in InitCaches
    /\ provider \in ProviderConfigs
    /\ cancel = FALSE
    /\ all_call = IdleAll
    /\ engine = IdleEngine
    /\ library = EmptyLibrary
    /\ call = IdleCall
    /\ requests = <<>>
    /\ prev = None
    /\ ReaderConstructed
    /\ budget = 0
    /\ size = [width |-> 0, height |-> 0]
    /\ load_st = "running"
    /\ progress = None
    /\ bookmarks = {}

\* translate_all up to its first await or its return
AllStart(paragraphs) ==
    /\ all_call.pc = "idle"
    /\ all_call' = AllLoop(AllStarted(db_cache, paragraphs,
                                      AllLookup(db_cache, paragraphs)),
                           provider, cancel, 1)
    /\ UNCHANGED <<db_cache, cancel>>
    /\ UNCHANGED allFrame

\* the provider answers a full chunk (lines 137-154)
AllChunkResponse(response) ==
    /\ all_call.pc = "chunk"
    /\ db_cache' = WriteBack(db_cache, all_call.paragraphs, all_call.batch_indices,
                             CallApiBatchParts(response, Len(all_call.batch_indices)),
                             ProviderName(provider))
    /\ all_call' = AllStored(all_call,
                             CallApiBatchParts(response, Len(all_call.batch_indices)),
                             "sleep")
    /\ UNCHANGED cancel
    /\ UNCHANGED allFrame

\* the loop goes on after asyncio.sleep(0) (line 154)
AllResume ==
    /\ all_call.pc = "sleep"
    /\ all_call' = AllLoop(all_call, provider, cancel, all_call.i)
    /\ UNCHANGED <<db_cache, cancel>>
    /\ UNCHANGED allFrame

\* the provider answers the last chunk (lines 157-173)
AllFinalResponse(response) ==
    /\ all_call.pc = "final"
    /\ db_cache' = WriteBack(db_cache, all_call.paragraphs, all_call.batch_indices,
                             CallApiBatchParts(response, Len(all_call.batch_indices)),
                             ProviderName(provider))
    /\ all_call' = AllStored(all_call,
                             CallApiBatchParts(response, Len(all_call.batch_indices)),
                             "returned")
    /\ UNCHANGED cancel
    /\ UNCHANGED allFrame

\* _call_api raises (lines 220-244) and translate_all with it
AllFail(kind) ==
    /\ all_call.pc \in {"chunk", "final"}
    /\ all_call' = [all_call EXCEPT !.pc = "raised"]
    /\ UNCHANGED <<db_cache, cancel>>
    /\ UNCHANGED allFrame

\* TranslationEngine.cancel (lines 43-44), called before translate_all,
\* while it awaits, or after it
AllCancel ==
    /\ ~cancel
    /\ cancel' = TRUE
    /\ UNCHANGED <<db_cache, all_call>>
    /\ UNCHANGED allFrame

\* TranslationEngine.reset_cancel (lines 46-47), called likewise
AllResetCancel ==
    /\ cancel
    /\ cancel' = FALSE
    /\ UNCHANGED <<db_cache, all_call>>
    /\ UNCHANGED allFrame

TranslateAllNext ==
    \/ \E paragraphs \in AllParagraphLists : AllStart(paragraphs)
    \/ \E response \in AllAnswers(Len(all_call.batch_indices)) : AllChunkResponse(response)
    \/ AllResume
    \/ \E response \in AllAnswers(Len(all_call.batch_indices)) : AllFinalResponse(response)
    \/ \E kind \in FailureKinds : AllFail(kind)
    \/ AllCancel
    \/ AllResetCancel

TranslateAllSpec == TranslateAllInit /\ [][TranslateAllNext]_vars

\* the request translate_all awaits returns: the provider answers or
\* _call_api raises
AllRequestReturns ==
    \/ \E response \in AllAnswers(Len(all_call.batch_indices)) : AllChunkResponse(response)
    \/ \E response \in AllAnswers(Len(all_call.batch_indices)) : AllFinalResponse(response)
    \/ \E kind \in FailureKinds : AllFail(kind)

\* TranslateAllLiveSpec: the same call when every request returns and the
\* event loop runs the coroutine again after asyncio.sleep(0)
TranslateAllLiveSpec ==
    /\ TranslateAllInit
    /\ [][TranslateAllNext]_vars
    /\ WF_vars(AllRequestReturns)
    /\ WF_vars(AllResume)

----------------------------------------------------------------------------
(* QuerySpec: the engine's queries (is_configured, _make_hash,             *)
(* is_translated, count_translated) under every provider selection, and    *)
(* the life of its HTTP client (_call_api creates it, close releases it).  *)

\* target languages (BOOKWORM_TRANSLATE_TARGET_LANG)
Langs == {target_lang, <<"e", "n">>}

\* AppConfig.get_active_provider: no provider under the selected name, or
\* one of load_config's, its key and its endpoint set or empty
ProviderChoices ==
    { None,
      Some([name |-> "qwen", api_key |-> <<"k">>, base_url |-> <<"u">>]),
      Some([name |-> "qwen", api_key |-> <<>>, base_url |-> <<"u">>]),
      Some([name |-> "qwen", api_key |-> <<"k">>, base_url |-> <<>>]),
      Some([name |-> "ollama", api_key |-> <<>>, base_url |-> <<"u">>]),
      Some([name |-> "ollama", api_key |-> <<>>, base_url |-> <<>>]),
      Some([name |-> "ollama", api_key |-> <<"k">>, base_url |-> <<>>]) }

\* the caches: empty, a row with an empty translation, rows for both texts
QueryCaches ==
    { <<>>,
      cache_translation(<<>>, MakeHash(<<"a">>, target_lang), <<"a">>, <<>>,
                        target_lang, "old"),
      cache_translation(
          cache_translation(<<>>, MakeHash(<<"a">>, target_lang), <<"a">>, <<"x">>,
                            target_lang, "old"),
          MakeHash(<<"b">>, target_lang), <<"b">>, <<"x">>, target_lang, "old") }

\* the texts asked about: whitespace only, and two others
QueryTexts == {<<" ">>, <<"a">>, <<"b">>}

\* the paragraph lists counted
QueryLists == { <<>>, << <<"a">>, <<" ">>, <<"b">> >>, << <<"a">>, <<"a">> >>, << <<"b">> >> }

\* everything the queries and the client leave alone
queryFrame == <<db_cache, call, requests, prev, all_call, library, content, pages,
                page_para_ranges, chapter_idx, page_idx, dual_mode, line_spacing,
                loaded, translate_mode, load_st, size, cancel, progress, bookmarks,
                bm_list, toc_visible, bm_visible, export_file, export_report,
                workers, notes, crashed, budget>>

QueryInit ==
    /\ db_cache \in QueryCaches
    /\ provider \in ProviderChoices
    /\ engine = IdleEngine
    /\ library = EmptyLibrary
    /\ all_call = IdleAll
    /\ call = IdleCall
    /\ requests = <<>>
    /\ prev = None
    /\ ReaderConstructed
    /\ budget = MaxQueries
    /\ size = [width |-> 0, height |-> 0]
    /\ load_st = "running"
    /\ progress = None
    /\ bookmarks = {}
    /\ cancel = FALSE

\* a query and its answer; `active` is what is known of the provider
\* selected when it was answered
Answer(op, text, lang, paragraphs, active, result) ==
    [op |-> op, text |-> text, lang |-> lang, paragraphs |-> paragraphs,
     active |-> active, result |-> result]

\* the query is answered; the last two answers are kept
Answered(e) ==
    /\ events < budget
    /\ events' = events + 1
    /\ engine' = [engine EXCEPT !.queries = IF Len(@) = 2 THEN <<@[2], e>>
                                            ELSE Append(@, e)]
    /\ UNCHANGED provider
    /\ UNCHANGED queryFrame

\* TranslationEngine.is_configured
IsConfiguredQuery ==
    Answered(Answer("is_configured", <<>>, <<>>, <<>>, provider, is_configured(provider)))

\* TranslationEngine._make_hash
MakeHashQuery(text, lang) ==
    Answered(Answer("make_hash", text, lang, <<>>, ProviderName(provider),
                    MakeHash(text, lang)))

\* TranslationEngine.is_translated
IsTranslatedQuery(text) ==
    Answered(Answer("is_translated", text, target_lang, <<>>, "",
                    is_translated(db_cache, text)))

\* TranslationEngine.count_translated
CountTranslatedQuery(paragraphs) ==
    Answered(Answer("count_translated", <<>>, target_lang, paragraphs, "",
                    count_translated(db_cache, paragraphs)))

\* config.translate_provider or the provider's settings are changed
SelectProvider(p) ==
    /\ p # provider
    /\ provider' = p
    /\ UNCHANGED <<engine, events>>
    /\ UNCHANGED queryFrame

\* _call_api, lines 191-196: the client is created at the first request
\* with a provider selected
EnsureClient(e, p) ==
    IF IsNone(p) \/ ~IsNone(e.client) THEN e
    ELSE [e EXCEPT !.client = Some(e.made + 1), !.made = @ + 1]

ApiCall ==
    /\ engine.made < MaxClients
    /\ engine' = EnsureClient(engine, provider)
    /\ UNCHANGED <<provider, events>>
    /\ UNCHANGED queryFrame

\* a close that keeps the closed client
close_keeps_client(e) ==
    IF ~IsNone(e.client) THEN [e EXCEPT !.released = @ \cup {Val(e.client)}] ELSE e

\* TranslationEngine.close, lines 246-249
close(e) ==
    IF ~IsNone(e.client)
    THEN [e EXCEPT !.released = @ \cup {Val(e.client)}, !.client = None]
    ELSE e

\* close() is called (BookwormApp.action_quit, or a caller of the engine)
Close ==
    /\ events < budget
    /\ events' = events + 1
    /\ engine' = close(engine)
    /\ UNCHANGED provider
    /\ UNCHANGED queryFrame

QueryNext ==
    \/ IsConfiguredQuery
    \/ \E text \in QueryTexts \ {<<" ">>}, lang \in Langs : MakeHashQuery(text, lang)
    \/ \E text \in QueryTexts : IsTranslatedQuery(text)
    \/ \E paragraphs \in QueryLists : CountTranslatedQuery(paragraphs)
    \/ \E p \in ProviderChoices : SelectProvider(p)
    \/ ApiCall
    \/ Close

QuerySpec == QueryInit /\ [][QueryNext]_vars

----------------------------------------------------------------------------
(* LibrarySpec: the books, reading_progress and bookmarks tables under the *)
(* calls of Database (database.py, with PRAGMA foreign_keys=ON) that the   *)
(* screens and the tests make, and LibraryScreen's delete dialog           *)
(* (library_screen.py, lines 309-329).                                     *)

BookIds == {"b1", "b2"}

\* reading positions, <<chapter_index, scroll_offset>>
LibPositions == { <<0, 0>>, <<1, 2>> }

\* the tables with foreign keys not enforced
CascadeNone(lib, id) == lib

\* REFERENCES books(id) ON DELETE CASCADE (lines 25 and 34): the rows of the
\* deleted book go
Cascade(lib, id) ==
    [lib EXCEPT !.reading_progress = [b \in (DOMAIN @) \ {id} |-> @[b]],
                !.bookmarks = {m \in @ : m[1] # id}]

\* a call of Database returned
Returned(lib, name) == [lib EXCEPT !.last_call = name, !.raised = "", !.notes = <<>>]

\* a call of Database raised sqlite3.IntegrityError
Raised(lib, name) ==
    [lib EXCEPT !.last_call = name, !.raised = "IntegrityError", !.notes = <<>>]

\* Database.remove_book, lines 90-92
db_remove_book(lib, id) ==
    Returned(Cascade([lib EXCEPT !.books = @ \ {id}], id), "remove_book")

\* Database.add_book, lines 71-88: INSERT OR REPLACE deletes the row that
\* has the id, and with it the rows that reference it
db_add_book(lib, id) ==
    Returned(IF id \in lib.books THEN Cascade(lib, id)
             ELSE [lib EXCEPT !.books = @ \cup {id}], "add_book")

\* Database.save_progress, lines 154-167
db_save_progress(lib, id, pos) ==
    IF id \in lib.books
    THEN Returned([lib EXCEPT !.reading_progress = (id :> pos) @@ @], "save_progress")
    ELSE Raised(lib, "save_progress")

\* Database.add_bookmark, lines 186-200
db_add_bookmark(lib, id, pos) ==
    IF id \in lib.books
    THEN Returned([lib EXCEPT !.bookmarks = @ \cup {<<id, pos[1], pos[2]>>}], "add_bookmark")
    ELSE Raised(lib, "add_bookmark")

\* _refresh_books, lines 205-236, without a search: a row for every book
refresh_books(lib) == [lib EXCEPT !.table = lib.books]

\* LibraryScreen.notify
lib_notify(lib, kind) == [lib EXCEPT !.notes = Append(@, kind)]

\* _finish_add_book, lines 302-305
finish_add_book(lib, id) == lib_notify(refresh_books(db_add_book(lib, id)), "added")

\* action_delete_book, lines 309-320, with the cursor on the row of id
delete_book(lib, id) ==
    IF id \notin lib.books THEN [lib EXCEPT !.notes = <<>>]
    ELSE [lib EXCEPT !.dialog = Some(id), !.notes = <<>>]

\* the handler the text of lines 325-329 would be, were it not indented
\* under the return
on_delete_confirmed_removing(lib, confirmed, id) ==
    IF ~confirmed THEN lib
    ELSE lib_notify(refresh_books(db_remove_book(lib, id)), "removed")

\* _on_delete_confirmed, lines 322-329: lines 325-329 follow the return of
\* line 324 at its indentation and never run
on_delete_confirmed(lib, confirmed, id) == lib

\* everything the library leaves alone
libFrame == <<db_cache, provider, call, requests, prev, all_call, engine, content,
              pages, page_para_ranges, chapter_idx, page_idx, dual_mode,
              line_spacing, loaded, translate_mode, load_st, size, cancel,
              progress, bookmarks, bm_list, toc_visible, bm_visible, export_file,
              export_report, workers, notes, crashed, events, budget>>

LibraryInit ==
    /\ library = EmptyLibrary
    /\ engine = IdleEngine
    /\ db_cache = <<>>
    /\ provider = None
    /\ all_call = IdleAll
    /\ call = IdleCall
    /\ requests = <<>>
    /\ prev = None
    /\ ReaderConstructed
    /\ budget = 0
    /\ size = [width |-> 0, height |-> 0]
    /\ load_st = "running"
    /\ progress = None
    /\ bookmarks = {}
    /\ cancel = FALSE

\* _finish_add_book: a picked file was parsed
FinishAddBook(id) ==
    /\ library' = finish_add_book(library, id)
    /\ UNCHANGED libFrame

\* Database.save_progress (ReaderScreen._save_progress, line 411)
SaveProgress(id, pos) ==
    /\ library' = db_save_progress(library, id, pos)
    /\ UNCHANGED libFrame

\* Database.add_bookmark (ReaderScreen.action_add_bookmark, line 475)
AddBookmarkRow(id, pos) ==
    /\ library' = db_add_bookmark(library, id, pos)
    /\ UNCHANGED libFrame

\* Database.remove_book, called on the database itself
RemoveBook(id) ==
    /\ library' = db_remove_book(library, id)
    /\ UNCHANGED libFrame

\* action_delete_book: D with the cursor on a row of the table
DeleteBook(id) ==
    /\ IsNone(library.dialog)
    /\ id \in library.table
    /\ library' = delete_book(library, id)
    /\ UNCHANGED libFrame

\* ConfirmDeleteScreen is dismissed with `confirmed` (lines 157-164) and
\* the callback of line 319 runs
DeleteAnswered(confirmed) ==
    /\ ~IsNone(library.dialog)
    /\ library' = on_delete_confirmed([library EXCEPT !.dialog = None, !.notes = <<>>],
                                      confirmed, Val(library.dialog))
    /\ UNCHANGED libFrame

LibraryNext ==
    \/ \E id \in BookIds : FinishAddBook(id)
    \/ \E id \in BookIds, pos \in LibPositions : SaveProgress(id, pos)
    \/ \E id \in BookIds, pos \in LibPositions : AddBookmarkRow(id, pos)
    \/ \E id \in BookIds : RemoveBook(id)
    \/ \E id \in BookIds : DeleteBook(id)
    \/ \E confirmed \in BOOLEAN : DeleteAnswered(confirmed)

LibrarySpec == LibraryInit /\ [][LibraryNext]_vars

----------------------------------------------------------------------------
(* Spec: one reader session.  The book is loaded on a thread, the user's   *)
(* keys and the steps of the prefetch workers interleave on the event      *)
(* loop.  A handler runs to its end in one step; a worker runs from one    *)
(* await to the next in one step.                                          *)

\* the paragraphs of the books
TextA == <<"a">>
TextB == <<"b">>

\* a book of two chapters whose table of contents also lists an item past
\* the last chapter (EpubParser numbers the entries by spine item and skips
\* the items without paragraphs), and a book without chapters
Books ==
    { [chapters |-> << <<TextA, TextB, TextA, TextB>>, <<TextB>> >>, toc |-> <<0, 1, 2>>],
      [chapters |-> <<>>, toc |-> <<>>] }

\* sizes of the content widget; the second is below the minimum of
\* _get_content_dimensions
Sizes == { [width |-> 40, height |-> 3], [width |-> 8, height |-> 2] }
InitialSize == [width |-> 40, height |-> 3]

\* the answers of the provider to a request for k texts: n translations "t"
\* separated by "---"
SessionAnswers(k) == { Join(<<"---">>, Repeat(<<"t">>, n)) : n \in 0..k }

\* a cache holding the translation "t" of the given texts
RECURSIVE CacheOf(_)
CacheOf(texts) ==
    IF texts = <<>> THEN <<>>
    ELSE cache_translation(CacheOf(Tail(texts)), MakeHash(Head(texts), target_lang),
                           Head(texts), <<"t">>, target_lang, "qwen")

\* what earlier sessions left behind: cache, provider configuration, stored
\* reading position and bookmarks (page numbers are those of the layout the
\* earlier session had).  The provider is configured, not selected (an
\* unknown BOOKWORM_TRANSLATE_PROVIDER) or without its API key (load_config
\* with the key's variable unset).
InitScenarios ==
    LET configured == Some([name |-> "qwen", api_key |-> <<"k">>, base_url |-> <<"u">>])
    IN  { [cache |-> <<>>, provider |-> configured, progress |-> None,
           bookmarks |-> {<<0, 3>>}],
          [cache |-> CacheOf(<<TextA, TextB>>), provider |-> configured,
           progress |-> Some([chapter_index |-> 0, scroll_offset |-> 1]),
           bookmarks |-> {}],
          [cache |-> <<>>, provider |-> configured,
           progress |-> Some([chapter_index |-> 1, scroll_offset |-> 3]),
           bookmarks |-> {<<1, 3>>}],
          [cache |-> <<>>, provider |-> None, progress |-> None, bookmarks |-> {}],
          [cache |-> CacheOf(<<TextA>>), provider |-> configured,
           progress |-> Some([chapter_index |-> 0, scroll_offset |-> 1]),
           bookmarks |-> {}],
          [cache |-> <<>>, provider |-> Some([name |-> "qwen", api_key |-> <<>>,
                                               base_url |-> <<"u">>]),
           progress |-> None, bookmarks |-> {}] }

SessionInit(max_events) ==
    /\ budget = max_events
    /\ \E sc \in InitScenarios :
          /\ db_cache = sc.cache
          /\ provider = sc.provider
          /\ progress = sc.progress
          /\ bookmarks = sc.bookmarks
    /\ ReaderConstructed
    /\ size = InitialSize
    /\ load_st = "running"
    /\ cancel = FALSE
    /\ call = IdleCall
    /\ requests = <<>>
    /\ prev = None
    /\ all_call = IdleAll
    /\ engine = IdleEngine
    /\ library = EmptyLibrary

\* the reader's state at the start of a step
ReaderState ==
    [content |-> content, pages |-> pages, page_para_ranges |-> page_para_ranges,
     chapter_idx |-> chapter_idx, page_idx |-> page_idx, dual_mode |-> dual_mode,
     line_spacing |-> line_spacing, loaded |-> loaded,
     translate_mode |-> translate_mode, size |-> size, cancel |-> cancel,
     db_cache |-> db_cache, provider |-> provider, progress |-> progress,
     bookmarks |-> bookmarks, bm_list |-> bm_list, toc_visible |-> toc_visible,
     bm_visible |-> bm_visible, export_file |-> export_file,
     export_report |-> export_report, workers |-> workers,
     writable |-> library.writable, notes |-> <<>>, crashed |-> FALSE]

\* the reader's state at the end of a step
Commit(r) ==
    /\ content' = r.content
    /\ pages' = r.pages
    /\ page_para_ranges' = r.page_para_ranges
    /\ chapter_idx' = r.chapter_idx
    /\ page_idx' = r.page_idx
    /\ dual_mode' = r.dual_mode
    /\ line_spacing' = r.line_spacing
    /\ loaded' = r.loaded
    /\ translate_mode' = r.translate_mode
    /\ size' = r.size
    /\ cancel' = r.cancel
    /\ db_cache' = r.db_cache
    /\ progress' = r.progress
    /\ bookmarks' = r.bookmarks
    /\ bm_list' = r.bm_list
    /\ toc_visible' = r.toc_visible
    /\ bm_visible' = r.bm_visible
    /\ export_file' = r.export_file
    /\ export_report' = r.export_report
    /\ workers' = r.workers
    /\ notes' = r.notes
    /\ crashed' = r.crashed
    /\ UNCHANGED <<provider, call, requests, prev, all_call, engine, library, budget>>

\* a key or a click of the user, handled to the end
UserEvent(r) ==
    /\ ~crashed
    /\ events < budget
    /\ events' = events + 1
    /\ Commit(r)
    /\ UNCHANGED load_st

\* a step of the event loop that no user event starts
LoopStep(r) ==
    /\ ~crashed
    /\ Commit(r)
    /\ UNCHANGED <<load_st, events>>

action_next_page == UserEvent(NextPage(ReaderState))
action_prev_page == UserEvent(PrevPage(ReaderState))
action_next_chapter == UserEvent(NextChapter(ReaderState))
action_prev_chapter == UserEvent(PrevChapter(ReaderState))
action_add_bookmark == UserEvent(AddBookmark(ReaderState))
action_toggle_toc == UserEvent(ToggleToc(ReaderState))
action_toggle_bookmarks == UserEvent(ToggleBookmarks(ReaderState))
action_toggle_translate == UserEvent(ToggleTranslate(ReaderState))
action_increase_spacing == UserEvent(IncreaseSpacing(ReaderState))
action_decrease_spacing == UserEvent(DecreaseSpacing(ReaderState))
action_toggle_dual == UserEvent(ToggleDual(ReaderState))
action_export_bilingual == UserEvent(Export(ReaderState))

\* the TOC list is filled by _populate_toc in _after_load; an item of a
\* sidebar can be selected while the sidebar is displayed (themes.py)
on_toc_selected ==
    /\ load_st = "done"
    /\ toc_visible
    /\ \E k \in 1..Len(Val(content).toc) :
          UserEvent(TocSelected(ReaderState, Val(content).toc[k]))

on_bookmark_selected ==
    /\ bm_visible
    /\ \E bm \in bm_list : UserEvent(BookmarkSelected(ReaderState, bm))

on_resize ==
    \E new_size \in Sizes \ {size} : UserEvent(Resize(ReaderState, new_size))

\* _load_book, lines 147-157: the parser returned
LoadParsed(book) ==
    /\ load_st = "running"
    /\ ~crashed
    /\ load_st' = "parsed"
    /\ Commit([ReaderState EXCEPT !.content = Some(book)])
    /\ UNCHANGED events

\* _load_book, lines 151-155: the parser raised
LoadFailed ==
    /\ load_st = "running"
    /\ ~crashed
    /\ load_st' = "failed"
    /\ Commit(notify(ReaderState, "load_error"))
    /\ UNCHANGED events

\* _after_load, called on the event loop by call_from_thread (line 158)
after_load ==
    /\ load_st = "parsed"
    /\ ~crashed
    /\ load_st' = "done"
    /\ Commit(AfterLoad(ReaderState))
    /\ UNCHANGED events

\* the body of worker i starts
WorkerStart(i) ==
    /\ workers[i].st = "pending"
    /\ LoopStep(WorkerBegin(ReaderState, i))

\* the provider answers the request of the b-th call of worker i
WorkerBatchDone(i, b) ==
    /\ workers[i].st = "running"
    /\ workers[i].batches[b].st = "inflight"
    /\ \E response \in SessionAnswers(Len(workers[i].batches[b].idx)) :
          LoopStep(BatchDone(ReaderState, i, b, response))

\* the request of the b-th call of worker i fails
WorkerBatchFail(i, b) ==
    /\ workers[i].st = "running"
    /\ workers[i].batches[b].st = "inflight"
    /\ LoopStep(BatchFailed(ReaderState, i, b))

\* the gather of worker i returns: all its calls have returned or raised
WorkerFinish(i) ==
    /\ workers[i].st = "running"
    /\ \A b \in DOMAIN workers[i].batches : workers[i].batches[b].st # "inflight"
    /\ LoopStep(WorkerEnd(ReaderState, i))

\* the cancelled worker i receives CancelledError (lines 569-570) and is gone
WorkerReap(i) ==
    /\ workers[i].st = "cancelled"
    /\ LoopStep([ReaderState EXCEPT !.workers = RemoveAt(@, i)])

Next ==
    \/ \E book \in Books : LoadParsed(book)
    \/ LoadFailed
    \/ after_load
    \/ action_next_page
    \/ action_prev_page
    \/ action_next_chapter
    \/ action_prev_chapter
    \/ on_toc_selected
    \/ on_bookmark_selected
    \/ action_add_bookmark
    \/ action_toggle_toc
    \/ action_toggle_bookmarks
    \/ action_toggle_translate
    \/ action_increase_spacing
    \/ action_decrease_spacing
    \/ action_toggle_dual
    \/ action_export_bilingual
    \/ on_resize
    \/ \E i \in DOMAIN workers : WorkerStart(i)
    \/ \E i \in DOMAIN workers : \E b \in DOMAIN workers[i].batches : WorkerBatchDone(i, b)
    \/ \E i \in DOMAIN workers : \E b \in DOMAIN workers[i].batches : WorkerBatchFail(i, b)
    \/ \E i \in DOMAIN workers : WorkerFinish(i)
    \/ \E i \in DOMAIN workers : WorkerReap(i)

Init == SessionInit(MaxEvents)

Spec == Init /\ [][Next]_vars

----------------------------------------------------------------------------
(* PrefetchSpec: the reader session with the page, chapter and bookmark    *)
(* handlers and the translation switch, at the layout the screen starts    *)
(* with.                                                                   *)

PrefetchInit == SessionInit(MaxPrefetchEvents)

PrefetchNext ==
    \/ \E book \in Books : LoadParsed(book)
    \/ LoadFailed
    \/ after_load
    \/ action_next_page
    \/ action_prev_page
    \/ action_next_chapter
    \/ action_prev_chapter
    \/ action_toggle_bookmarks
    \/ on_bookmark_selected
    \/ action_toggle_translate
    \/ \E i \in DOMAIN workers : WorkerStart(i)
    \/ \E i \in DOMAIN workers : \E b \in DOMAIN workers[i].batches : WorkerBatchDone(i, b)
    \/ \E i \in DOMAIN workers : \E b \in DOMAIN workers[i].batches : WorkerBatchFail(i, b)
    \/ \E i \in DOMAIN workers : WorkerFinish(i)
    \/ \E i \in DOMAIN workers : WorkerReap(i)

PrefetchSpec == PrefetchInit /\ [][PrefetchNext]_vars

----------------------------------------------------------------------------
(* PagingSpec: the reader session with the page and chapter keys and the   *)
(* layout handlers, translation mode staying off.                          *)

PagingInit == SessionInit(MaxPagingEvents)

PagingNext ==
    \/ \E book \in Books : LoadParsed(book)
    \/ LoadFailed
    \/ after_load
    \/ action_next_page
    \/ action_prev_page
    \/ action_next_chapter
    \/ action_prev_chapter
    \/ action_add_bookmark
    \/ action_increase_spacing
    \/ action_decrease_spacing
    \/ action_toggle_dual
    \/ on_resize

PagingSpec == PagingInit /\ [][PagingNext]_vars

----------------------------------------------------------------------------
(* FaultSpec: the reader session with the page and chapter keys and the    *)
(* translation switch, over a store whose writes can fail (sqlite3 raises  *)
(* OperationalError when the file is locked, read-only or the disk full).  *)

FaultInit == SessionInit(MaxFaultEvents)

\* the store stops taking writes while the book is open, and takes none for
\* the rest of the session
StoreFails ==
    /\ load_st = "done"
    /\ ~crashed
    /\ library.writable
    /\ library' = [library EXCEPT !.writable = FALSE]
    /\ UNCHANGED libFrame

FaultNext ==
    \/ \E book \in Books : LoadParsed(book)
    \/ after_load
    \/ action_next_page
    \/ action_prev_page
    \/ action_next_chapter
    \/ action_prev_chapter
    \/ action_toggle_translate
    \/ StoreFails

FaultSpec == FaultInit /\ [][FaultNext]_vars

----------------------------------------------------------------------------
(* ReflowSpec: _reflow applied to one chapter, for every text, viewport,   *)
(* spacing, dual and translate setting and cache of the sets below, and to *)
(* a book without chapters.                                                *)

\* paragraph texts: blank, short, wide glyphs only, a narrow glyph before
\* wide ones (the line ends one column short), wide glyphs with a blank at
\* the break, one long ASCII word, ASCII words
ReflowTexts ==
    { <<" ">>,
      <<"a">>,
      Repeat("CJK", 11),
      <<"a">> \o Repeat("CJK", 10) \o <<" ", "b">>,
      Repeat("CJK", 10) \o <<" ">> \o Repeat("CJK", 2),
      Repeat("a", 25),
      Repeat("a", 9) \o <<" ">> \o Repeat("b", 9) \o <<" ">> \o Repeat("c", 9) }

\* cached translations: empty, short, wide glyphs, ASCII words
ReflowTranslations ==
    { <<>>, <<"t">>, Repeat("CJK", 9),
      Repeat("t", 12) \o <<" ">> \o Repeat("u", 12) }

\* a cache holding the same translation of every text
RECURSIVE CacheAll(_, _)
CacheAll(texts, translation) ==
    IF texts = {} THEN <<>>
    ELSE LET t == CHOOSE x \in texts : TRUE
         IN  cache_translation(CacheAll(texts \ {t}, translation),
                               MakeHash(t, target_lang), t, translation,
                               target_lang, "qwen")

ReflowCaches ==
    {<<>>} \cup { CacheAll({t \in ReflowTexts \cup {TextB} : ~IsBlank(t)}, tr) :
                     tr \in ReflowTranslations }

\* a paragraph with two blanks at the break, and chapters of more
\* paragraphs: short ones only (several paragraphs on a
\* page), short ones around a blank and a long one, long ones only
ReflowLongChapters ==
    { << Repeat("CJK", 10) \o <<" ", " ", "CJK">> >>,
      <<TextA, TextB, TextA, TextB, TextA>>,
      <<TextA, <<" ">>, Repeat("a", 25), TextB>>,
      <<Repeat("CJK", 11), Repeat("a", 25), <<"a">> \o Repeat("CJK", 10) \o <<" ", "b">>>> }

\* the chapters laid out
ReflowChapters == SeqsUpTo(ReflowTexts, MaxReflowParas) \cup ReflowLongChapters

\* sizes of the content widget: 20 columns, 43 columns (20 in dual mode),
\* and one below the minimum of _get_content_dimensions
ReflowSizes ==
    { [width |-> 24, height |-> 3], [width |-> 47, height |-> 4],
      [width |-> 8, height |-> 2] }

\* the values action_increase_spacing and action_decrease_spacing allow
Spacings == 0..3

ReflowInit ==
    /\ content \in { Some([chapters |-> <<ps>>, toc |-> <<0>>]) :
                        ps \in ReflowChapters }
                   \cup { Some([chapters |-> <<>>, toc |-> <<>>]) }
    /\ size \in ReflowSizes
    /\ line_spacing \in Spacings
    /\ dual_mode \in BOOLEAN
    /\ translate_mode \in BOOLEAN
    /\ db_cache \in ReflowCaches
    /\ loaded = TRUE
    /\ load_st = "done"
    /\ pages = <<>>
    /\ page_para_ranges = <<>>
    /\ chapter_idx = 0
    /\ page_idx = 0
    /\ provider = Some([name |-> "qwen", api_key |-> <<"k">>, base_url |-> <<"u">>])
    /\ progress = None
    /\ bookmarks = {}
    /\ bm_list = {}
    /\ toc_visible = FALSE
    /\ bm_visible = FALSE
    /\ export_file = None
    /\ export_report = None
    /\ workers = <<>>
    /\ notes = <<>>
    /\ crashed = FALSE
    /\ events = 0
    /\ budget = 1
    /\ cancel = FALSE
    /\ call = IdleCall
    /\ requests = <<>>
    /\ prev = None
    /\ all_call = IdleAll
    /\ engine = IdleEngine
    /\ library = EmptyLibrary

\* _reflow, once
Reflow ==
    /\ events < budget
    /\ events' = events + 1
    /\ Commit(reflow(ReaderState))
    /\ UNCHANGED load_st

ReflowNext == Reflow

ReflowSpec == ReflowInit /\ [][ReflowNext]_vars

----------------------------------------------------------------------------
(* Claims about translate_batch (EngineSpec) *)

\* the segments of a provider's answer: the stripped runs between "---"
Segments(response) ==
    LET raw == Split(Strip(response))
    IN  [j \in 1..Len(raw) |-> Strip(raw[j])]

\* position i holds a non-blank paragraph with no row in cache db
IsMiss(db, paragraphs, i) ==
    /\ ~IsBlank(paragraphs[i])
    /\ MakeHash(paragraphs[i], target_lang) \notin DOMAIN db

\* how many misses there are among the first i paragraphs
MissRank(db, paragraphs, i) ==
    Cardinality({k \in 1..i : IsMiss(db, paragraphs, k)})

\* the missed paragraphs, in input order
RECURSIVE MissesFrom(_, _, _)
MissesFrom(db, paragraphs, i) ==
    IF i > Len(paragraphs) THEN <<>>
    ELSE IF IsMiss(db, paragraphs, i)
         THEN <<paragraphs[i]>> \o MissesFrom(db, paragraphs, i + 1)
         ELSE MissesFrom(db, paragraphs, i + 1)

\* the last position holding the same paragraph as position i
LastSame(paragraphs, i) ==
    CHOOSE k \in i..Len(paragraphs) :
        /\ paragraphs[k] = paragraphs[i]
        /\ \A m \in (k + 1)..Len(paragraphs) : paragraphs[m] # paragraphs[i]

\* C1: a translate_batch call that returns gives one result per input
\* paragraph, in input order: "" for a blank paragraph, the cached text for a
\* cached one, and for the j-th miss the provider's j-th segment, or "" when
\* the provider returned fewer than j segments (surplus segments are dropped).
C1_LengthAndOrder ==
    call.pc = "returned" =>
        /\ Len(call.ret) = Len(call.paragraphs)
        /\ \A i \in 1..Len(call.paragraphs) :
              LET p == call.paragraphs[i]
                  h == MakeHash(p, target_lang)
                  j == MissRank(call.db0, call.paragraphs, i)
              IN  call.ret[i] =
                    IF IsBlank(p) THEN <<>>
                    ELSE IF h \in DOMAIN call.db0 THEN call.db0[h].translated_text
                    ELSE IF IsNone(call.content) THEN <<"?">>
                    ELSE IF j <= Len(Segments(Val(call.content)))
                         THEN Segments(Val(call.content))[j]
                         ELSE <<>>

\* C1 witness: a call returned two misses for which the provider sent one
\* segment, next to a paragraph served from the cache
C1_Witness ==
    /\ call.pc = "returned"
    /\ ~IsNone(call.content)
    /\ Len(call.idx) = 2
    /\ Len(Segments(Val(call.content))) = 1
    /\ call.ret[call.idx[1]] # <<>>
    /\ call.ret[call.idx[2]] = <<>>
    /\ \E i \in 1..Len(call.paragraphs) :
          /\ ~IsBlank(call.paragraphs[i])
          /\ MakeHash(call.paragraphs[i], target_lang) \in DOMAIN call.db0

\* C2: a translate_batch call issues at most one remote request; the request
\* carries exactly the non-blank paragraphs without a cache row at lookup
\* time, in input order; with no such paragraph it issues no request and
\* returns the cached values, whether or not a provider is available.
C2_SingleRequest ==
    /\ Len(requests) <= 1
    /\ call.pc # "idle" =>
          LET misses == MissesFrom(call.db0, call.paragraphs, 1)
          IN  /\ (misses # <<>> /\ ~IsNone(provider)) =>
                    requests = <<Join(BATCH_SEPARATOR, misses)>>
              /\ misses = <<>> =>
                    /\ requests = <<>>
                    /\ call.pc = "returned"
                    /\ \A i \in 1..Len(call.paragraphs) :
                          call.ret[i] =
                            IF IsBlank(call.paragraphs[i]) THEN <<>>
                            ELSE call.db0[MakeHash(call.paragraphs[i],
                                                   target_lang)].translated_text

\* C2 witness: a blank, a cached and an uncached paragraph in one call, whose
\* request is in flight
C2_Witness ==
    /\ call.pc = "await"
    /\ Len(call.paragraphs) = 3
    /\ Len(call.idx) = 1
    /\ \E i \in 1..3 : IsBlank(call.paragraphs[i])
    /\ \E i \in 1..3 :
          /\ ~IsBlank(call.paragraphs[i])
          /\ MakeHash(call.paragraphs[i], target_lang) \in DOMAIN call.db0
          /\ call.db0[MakeHash(call.paragraphs[i], target_lang)].translated_text = <<>>

\* C3 as claimed: the second call on the same paragraphs issues no request
\* and returns the same list as the first.
C3_Original ==
    (~IsNone(prev) /\ ~Val(prev).interfered) =>
        /\ call.pc = "returned"
        /\ requests = <<>>
        /\ call.ret = Val(prev).ret

\* C3 as amended: the second call issues no request, so the two calls make
\* at most one request; it returns what the first call left in the cache:
\* the first call's result at the same position for a blank or already
\* cached paragraph, and for a paragraph the first call missed the first
\* call's result at the last position holding that paragraph.
C3_RepeatFromCache ==
    (~IsNone(prev) /\ ~Val(prev).interfered) =>
        /\ call.pc = "returned"
        /\ requests = <<>>
        /\ Len(Val(prev).requests) <= 1
        /\ Len(call.ret) = Len(Val(prev).ret)
        /\ \A i \in 1..Len(call.ret) :
              call.ret[i] =
                IF \E j \in 1..Len(Val(prev).idx) : Val(prev).idx[j] = i
                THEN Val(prev).ret[LastSame(call.paragraphs, i)]
                ELSE Val(prev).ret[i]

\* C3 witness: the repeated call returns another list than the first call,
\* which had sent one paragraph twice in its request
C3_Witness ==
    /\ ~IsNone(prev)
    /\ ~Val(prev).interfered
    /\ Len(Val(prev).requests) = 1
    /\ call.pc = "returned"
    /\ call.ret # Val(prev).ret

\* C4 as claimed: when translate_batch returns, every missed paragraph has
\* a cache row whose value is the translation returned for that paragraph.
C4_Original ==
    call.pc = "returned" =>
        \A j \in 1..Len(call.idx) :
            LET h == MakeHash(call.paragraphs[call.idx[j]], target_lang)
            IN  /\ h \in DOMAIN db_cache
                /\ db_cache[h].translated_text = call.ret[call.idx[j]]

\* C4 as amended: when translate_batch returns, every missed paragraph has
\* a cache row under H(paragraph, targetLang) whose value is the translation
\* returned at the last position of the input holding that paragraph.
C4_WriteBack ==
    call.pc = "returned" =>
        \A j \in 1..Len(call.idx) :
            LET h == MakeHash(call.paragraphs[call.idx[j]], target_lang)
            IN  /\ h \in DOMAIN db_cache
                /\ db_cache[h].source_text = call.paragraphs[call.idx[j]]
                /\ db_cache[h].translated_text =
                      call.ret[LastSame(call.paragraphs, call.idx[j])]

\* C4 witness: a call returned after its misses, one of them occurring
\* twice with two different translations, were written to the cache
C4_Witness ==
    /\ call.pc = "returned"
    /\ IsNone(prev)
    /\ \E j, k \in 1..Len(call.idx) :
          /\ j < k
          /\ call.paragraphs[call.idx[j]] = call.paragraphs[call.idx[k]]
          /\ call.ret[call.idx[j]] # call.ret[call.idx[k]]

\* C5: when the remote request of a translate_batch call fails, the call
\* raises, has written no cache row (the cache is as it was right before the
\* failure) and has issued no second request.
C5_FailureLeavesCache ==
    /\ Len(requests) <= 1
    /\ (call.pc = "raised" /\ requests # <<>>) =>
          /\ db_cache = call.db1
          /\ \A j \in 1..Len(call.idx) :
                LET h == MakeHash(call.paragraphs[call.idx[j]], target_lang)
                IN  h \in DOMAIN db_cache => h \in DOMAIN call.db1

\* C5 witness: a call whose request failed
C5_Witness ==
    /\ call.pc = "raised"
    /\ Len(requests) = 1
    /\ Len(call.idx) = 2

----------------------------------------------------------------------------
(* Claims about the prefetch workers and the cursor (Spec) *)

\* what the reader shows: pages, paragraph ranges and cursor
view == <<pages, page_para_ranges, chapter_idx, page_idx>>

\* a call of the worker has raised
HasFailed(w) == \E b \in DOMAIN w.batches : w.batches[b].st = "failed"

\* the texts the b-th call of worker w asked the provider for
Missed(w, b) == {w.batches[b].paragraphs[w.batches[b].idx[j]] : j \in DOMAIN w.batches[b].idx}

\* the step posts one error notification for each failed call of worker w
ReportsFailures(w) ==
    Len(SelectSeq(notes', LAMBDA n : n = "translation_error"))
       = Cardinality({b \in DOMAIN w.batches : w.batches[b].st = "failed"})

\* the failure of a call leaves the worker at its gather and the other calls
\* as they are, and touches neither cache, translation mode nor cursor
FailureIsLocal(i) ==
    \A b \in DOMAIN workers[i].batches :
       WorkerBatchFail(i, b) =>
          /\ workers'[i].st = "running"
          /\ \A b2 \in DOMAIN workers[i].batches \ {b} :
                workers'[i].batches[b2] = workers[i].batches[b2]
          /\ UNCHANGED <<db_cache, translate_mode, chapter_idx, page_idx>>

Navigation ==
    \/ action_next_page
    \/ action_prev_page
    \/ action_next_chapter
    \/ action_prev_chapter
    \/ on_toc_selected
    \/ on_bookmark_selected

\* the step calls _do_translate_pages at the cursor it leaves
IssuesTask ==
    /\ Len(workers') = Len(workers) + 1
    /\ workers'[Len(workers')].st = "pending"
    /\ workers'[Len(workers')].issued = <<chapter_idx', page_idx'>>

\* C7 as written: in translation mode every navigation that moves the
\* cursor of a loaded book issues a prefetch worker.
C7_Original ==
    [][(Navigation /\ loaded /\ translate_mode
          /\ <<chapter_idx', page_idx'>> # <<chapter_idx, page_idx>>) => IssuesTask]_vars

\* the worker is alive: its body is waiting to start or at its gather
Active(w) == w.st \in {"pending", "running"}

\* a step of worker i
WorkerStep(i) ==
    \/ WorkerStart(i)
    \/ \E b \in DOMAIN workers[i].batches : WorkerBatchDone(i, b)
    \/ \E b \in DOMAIN workers[i].batches : WorkerBatchFail(i, b)
    \/ WorkerFinish(i)
    \/ WorkerReap(i)

\* C8: at most one prefetch worker is alive, the one issued last; the workers
\* it replaced are cancelled, and no step of a replaced worker changes pages,
\* paragraph ranges or cursor.
C8_SingleActive ==
    /\ [](/\ Cardinality({i \in DOMAIN workers : Active(workers[i])}) <= 1
          /\ \A i \in DOMAIN workers :
                Active(workers[i]) <=> (i = Len(workers) /\ ~workers[i].superseded))
    /\ [][\A i \in DOMAIN workers :
             (workers[i].superseded /\ WorkerStep(i)) => UNCHANGED view]_vars

\* a worker that was at its gather when a new one replaced it
C8_Witness ==
    \E i \in DOMAIN workers :
       /\ workers[i].superseded
       /\ workers[i].st = "cancelled"
       /\ workers[i].was = "running"
       /\ \E j \in DOMAIN workers : j > i /\ Active(workers[j])

\* C9 as written: the completion of a prefetch worker issued at another
\* cursor than the current one changes neither pages, ranges nor cursor.
C9_Original ==
    [][\A i \in DOMAIN workers :
          (WorkerFinish(i) /\ workers[i].issued # <<chapter_idx, page_idx>>)
             => UNCHANGED view]_vars

\* C10: once the book is loaded the page index is within the pages, and even
\* in dual mode; an exception escapes a handler only where the book has no
\* chapter or the chapter index is outside the chapters, never for a page
\* index that had to be clamped.
C10_PageIndexInRange ==
    loaded =>
       /\ 0 <= page_idx
       /\ page_idx <= Len(pages) - 1
       /\ dual_mode => page_idx % 2 = 0
       /\ crashed => IsNone(current_chapter(ReaderState))

\* the book opened at a stored page past the last page of the chapter and
\* the cursor is on the last page
C10_Witness ==
    /\ loaded
    /\ ~crashed
    /\ ~IsNone(progress)
    /\ Val(progress).scroll_offset > Len(pages) - 1
    /\ page_idx = Len(pages) - 1

----------------------------------------------------------------------------
(* Claims about page stepping and stored progress (PagingSpec, Spec) *)

\* the step of the page keys
PageStep == IF dual_mode THEN 2 ELSE 1

\* the book has a chapter with 0-based index c
HasChapter(c) == ~IsNone(content) /\ 0 <= c /\ c < Len(Val(content).chapters)

\* the last page of the pages after the step, the last left page in dual mode
LastPageAfter ==
    IF dual_mode /\ (Len(pages') - 1) % 2 # 0 THEN Len(pages') - 2 ELSE Len(pages') - 1

\* C11: the next-page key moves the page index forward by the step (2 in
\* dual mode, 1 otherwise) when that page exists, else to page 0 of the
\* following chapter when there is one, else leaves the cursor; the
\* previous-page key moves it back by the step when the result is not
\* negative, else to the last page (the last left page in dual mode) of the
\* preceding chapter when there is one, else leaves the cursor.
C11_PageStepping ==
    [][/\ action_next_page =>
             <<chapter_idx', page_idx'>> =
                IF page_idx + PageStep < Len(pages)
                THEN <<chapter_idx, page_idx + PageStep>>
                ELSE IF HasChapter(chapter_idx + 1) THEN <<chapter_idx + 1, 0>>
                ELSE <<chapter_idx, page_idx>>
       /\ action_prev_page =>
             <<chapter_idx', page_idx'>> =
                IF page_idx - PageStep >= 0
                THEN <<chapter_idx, page_idx - PageStep>>
                ELSE IF HasChapter(chapter_idx - 1)
                THEN <<chapter_idx - 1, LastPageAfter>>
                ELSE <<chapter_idx, page_idx>>]_vars

\* the session that opened at chapter 1 is, after the dual and spacing keys
\* and the previous-page key, on the last left page of chapter 0, whose
\* last page is a right page
C11_Witness ==
    /\ loaded
    /\ dual_mode
    /\ line_spacing = 2
    /\ events = 3
    /\ chapter_idx = 0
    /\ Len(pages) % 2 = 0
    /\ page_idx = Len(pages) - 2
    /\ progress = Some([chapter_index |-> 0, scroll_offset |-> Len(pages) - 2])

\* C12 as written: once the book is loaded, every step of a page or chapter
\* key, of a TOC or bookmark selection and of the bookmark key leaves the
\* stored progress at the cursor it leaves.
C12_Original ==
    [][((Navigation \/ action_add_bookmark) /\ loaded /\ ~crashed') =>
          progress' = Some([chapter_index |-> chapter_idx',
                            scroll_offset |-> page_idx'])]_vars

----------------------------------------------------------------------------
(* Claims about the translation switch (Spec) *)

\* C13: translation mode is switched on only by the translate key and only
\* while the engine is configured; with an engine that is not configured the
\* key leaves mode, cursor and cache as they are and posts the "not
\* configured" notification and nothing else.
C13_ConfiguredOnly ==
    [][/\ (~translate_mode /\ translate_mode') =>
             (action_toggle_translate /\ is_configured(provider))
       /\ (action_toggle_translate /\ ~is_configured(provider)) =>
             /\ UNCHANGED <<translate_mode, chapter_idx, page_idx, db_cache, workers>>
             /\ notes' = <<"not_configured">>]_vars

\* the translate key was pressed in a loaded book whose provider has no API
\* key
C13_Witness ==
    /\ loaded
    /\ ~IsNone(provider)
    /\ ~is_configured(provider)
    /\ notes = <<"not_configured">>
    /\ ~translate_mode

\* the paragraph has no row in the translation cache
Uncached(text) == MakeHash(text, target_lang) \notin DOMAIN db_cache

\* a paragraph of an earlier chapter, or a paragraph of the current chapter
\* before the first paragraph of the current page, has no cached translation
GapBeforeCursor ==
    \/ \E c \in 0..(chapter_idx - 1) :
          /\ HasChapter(c)
          /\ \E k \in DOMAIN Val(content).chapters[c + 1] :
                Uncached(Val(content).chapters[c + 1][k])
    \/ /\ HasChapter(chapter_idx)
       /\ \E k \in DOMAIN Val(content).chapters[chapter_idx + 1] :
             /\ k - 1 < page_para_ranges[page_idx + 1][1]
             /\ Uncached(Val(content).chapters[chapter_idx + 1][k])

\* C14: when the translate key switches translation mode on in a loaded
\* book, the cursor becomes (chapter 0, page 0) if a paragraph before the
\* first paragraph of the current page (in an earlier chapter or earlier in
\* the current one) has no cached translation, and stays what it is
\* otherwise.
C14_JumpToStart ==
    [][(action_toggle_translate /\ loaded /\ ~translate_mode /\ translate_mode') =>
          <<chapter_idx', page_idx'>> =
             IF GapBeforeCursor THEN <<0, 0>> ELSE <<chapter_idx, page_idx>>]_vars

\* translation mode was switched on past the first page of a chapter whose
\* paragraphs before the page are cached while a later one is not, and the
\* cursor stayed
C14_Witness ==
    /\ loaded
    /\ translate_mode
    /\ events = 1
    /\ notes = <<"mode_on">>
    /\ <<chapter_idx, page_idx>> = <<0, 1>>
    /\ ~Uncached(TextA)
    /\ Uncached(TextB)

----------------------------------------------------------------------------
(* Claims about the export (Spec) *)

\* the paragraphs of the book, chapter after chapter
BookParagraphs == IF IsNone(content) THEN <<>> ELSE Concat(Val(content).chapters)

\* the number of paragraphs that have a row in the translation cache
DoneCount == Cardinality({k \in DOMAIN BookParagraphs : ~Uncached(BookParagraphs[k])})

\* C15: the export file is written only by the export key and only when
\* every paragraph of the book counts as translated; when fewer do, the key
\* leaves the file as it is and posts the one "incomplete" notification with
\* the number of translated paragraphs and the number of paragraphs; when
\* all do, it writes the file and reports the export.
C15_ExportOnlyComplete ==
    [][/\ export_file' # export_file =>
             (action_export_bilingual /\ DoneCount = Len(BookParagraphs))
       /\ (action_export_bilingual /\ ~IsNone(content)) =>
             IF DoneCount < Len(BookParagraphs)
             THEN /\ export_file' = export_file
                  /\ notes' = <<"incomplete">>
                  /\ export_report' = Some([done |-> DoneCount,
                                            total |-> Len(BookParagraphs)])
             ELSE /\ ~IsNone(export_file')
                  /\ notes' = <<"exported">>]_vars

\* the export key was pressed while some but not all paragraphs were
\* translated, and no file was written
C15_Witness ==
    /\ loaded
    /\ notes = <<"incomplete">>
    /\ ~IsNone(export_report)
    /\ 0 < Val(export_report).done
    /\ Val(export_report).done < Val(export_report).total
    /\ IsNone(export_file)

\* the lines of a text: the runs between "\n" tokens
RECURSIVE LinesFrom(_, _)
LinesFrom(text, cur) ==
    IF text = <<>> THEN <<cur>>
    ELSE IF Head(text) = "\n" THEN <<cur>> \o LinesFrom(Tail(text), <<>>)
    ELSE LinesFrom(Tail(text), Append(cur, Head(text)))

\* the lines of the export file the step writes
ExportedLines == LinesFrom(Val(export_file'), <<>>)

\* the line is a paragraph of the book
IsParagraphLine(line) == \E k \in DOMAIN BookParagraphs : BookParagraphs[k] = line

\* the line is a translation line with a translation that is not empty
IsTranslationLine(line) ==
    /\ Len(line) > Len(TRANSLATION_PREFIX)
    /\ SubSeq(line, 1, Len(TRANSLATION_PREFIX)) = TRANSLATION_PREFIX

\* C16 as written: when the export key writes the file, the paragraph lines
\* of the file are the paragraphs of the book in order, and the line after
\* each of them is a translation line.
C16_Original ==
    [][(action_export_bilingual /\ notes' = <<"exported">>) =>
          /\ SelectSeq(ExportedLines, IsParagraphLine) = BookParagraphs
          /\ \A i \in DOMAIN ExportedLines :
                IsParagraphLine(ExportedLines[i]) =>
                   /\ i < Len(ExportedLines)
                   /\ IsTranslationLine(ExportedLines[i + 1])]_vars

\* the requests a translate_all call has issued
AllSent == all_call.sent

\* a paragraph of the call that is neither translated nor in a request
LeftUntranslated ==
    \E i \in 1..Len(all_call.paragraphs) :
        /\ ~IsBlank(all_call.paragraphs[i])
        /\ all_call.results[i] = <<>>
        /\ \A k \in 1..Len(AllSent) :
              \A j \in 1..Len(AllSent[k].indices) : AllSent[k].indices[j] # i

\* C17: in translate_all a request is dispatched only while the cancel flag
\* is clear; the step at which the call observes the flag set dispatches
\* nothing, writes nothing to the cache and ends the call, and nothing is
\* dispatched or written after it; a chunk already dispatched when cancel()
\* is called still completes and every paragraph of it is cached with a
\* translation the chunk returned for that text, and the cache changes at no
\* other step, so the rows stay as written.
C17_CancelMonotone ==
    [][/\ Len(AllSent') > Len(AllSent) => ~cancel
       /\ (~all_call.observed /\ all_call'.observed) =>
              /\ AllSent' = AllSent
              /\ db_cache' = db_cache
              /\ all_call'.pc = "returned"
       /\ all_call.observed =>
              /\ AllSent' = AllSent
              /\ db_cache' = db_cache
              /\ all_call'.observed
       /\ (all_call.pc \in {"chunk", "final"} /\ all_call'.pc \in {"sleep", "returned"}) =>
              \A j \in 1..Len(all_call.batch_indices) :
                  \E k \in 1..Len(all_call.batch_indices) :
                      /\ all_call.paragraphs[all_call.batch_indices[k]]
                            = all_call.paragraphs[all_call.batch_indices[j]]
                      /\ get_cached(db_cache', all_call.paragraphs[all_call.batch_indices[j]])
                            = Some(all_call'.results[all_call.batch_indices[k]])
       /\ db_cache' # db_cache =>
              (all_call.pc \in {"chunk", "final"} /\ all_call'.pc \in {"sleep", "returned"})
      ]_vars

\* a chunk was dispatched, cancel() was called, the chunk's translations
\* were cached, and the call then saw the flag and returned with a
\* paragraph left untranslated
C17_Witness ==
    /\ all_call.pc = "returned"
    /\ all_call.observed
    /\ cancel
    /\ Len(AllSent) = 1
    /\ get_cached(db_cache, TextC) = Some(<<"x">>)
    /\ LeftUntranslated

\* the paragraphs of the call that had a cache row when it started
HadEntry(i) ==
    /\ ~IsBlank(all_call.paragraphs[i])
    /\ ~IsNone(get_cached_translation(all_call.db0,
                                      MakeHash(all_call.paragraphs[i], target_lang)))

\* paragraph i is part of a request the call has issued
WasSent(i) ==
    \E k \in 1..Len(AllSent) :
        \E j \in 1..Len(AllSent[k].indices) : AllSent[k].indices[j] = i

\* C18 (as stated): a paragraph that had a cache row when translate_all
\* started is never part of a request, its result is the cached translation,
\* and, in a call without blank paragraphs, no progress report counts more
\* paragraphs done than there are.
C18_Original ==
    all_call.pc # "idle" =>
        /\ \A i \in 1..Len(all_call.paragraphs) :
              HadEntry(i) =>
                  /\ ~WasSent(i)
                  /\ Some(all_call.results[i]) = get_cached(all_call.db0, all_call.paragraphs[i])
        /\ (\A i \in 1..Len(all_call.paragraphs) : ~IsBlank(all_call.paragraphs[i])) =>
              \A k \in 1..Len(all_call.reports) :
                  all_call.reports[k][1] <= all_call.reports[k][2]

\* the paragraphs of the chapter laid out
ChapterParagraphs == Val(content).chapters[chapter_idx + 1]

\* _reflow has laid out a chapter that has paragraphs
LaidOut ==
    /\ pages # <<>>
    /\ ~IsNone(content)
    /\ HasChapter(chapter_idx)
    /\ Len(ChapterParagraphs) >= 1

\* C19: for a chapter with n >= 1 paragraphs there is one range per page;
\* each range has start <= end; the start of the next page is the end of
\* the page or one more, so starts never decrease and no index is skipped;
\* the first range starts at 0 and the last ends at n - 1, so every
\* paragraph index lies in some range.
C19_RangeCoverage ==
    LaidOut =>
        /\ Len(page_para_ranges) = Len(pages)
        /\ \A k \in 1..Len(page_para_ranges) :
              page_para_ranges[k][1] <= page_para_ranges[k][2]
        /\ \A k \in 1..(Len(page_para_ranges) - 1) :
              /\ page_para_ranges[k + 1][1] >= page_para_ranges[k][1]
              /\ page_para_ranges[k + 1][1] \in
                    {page_para_ranges[k][2], page_para_ranges[k][2] + 1}
        /\ page_para_ranges[1][1] = 0
        /\ page_para_ranges[Len(page_para_ranges)][2] = Len(ChapterParagraphs) - 1
        /\ \A i \in 0..(Len(ChapterParagraphs) - 1) :
              \E k \in 1..Len(page_para_ranges) :
                  page_para_ranges[k][1] <= i /\ i <= page_para_ranges[k][2]

\* a chapter of two paragraphs laid out on three pages or more, one page
\* ending inside the paragraph the next page starts with, another ending
\* with a paragraph's last line
C19_Witness ==
    /\ LaidOut
    /\ Len(ChapterParagraphs) = 2
    /\ Len(pages) >= 3
    /\ \E k \in 1..(Len(page_para_ranges) - 1) :
          page_para_ranges[k + 1][1] = page_para_ranges[k][2]
    /\ \E k \in 1..(Len(page_para_ranges) - 1) :
          page_para_ranges[k + 1][1] = page_para_ranges[k][2] + 1

\* the column width _reflow wraps to
EffectiveWidth == PageWidth(dual_mode, get_content_dimensions(size))

\* the lines of all pages, in order
AllLines == Concat(pages)

\* C20: every line of every page _reflow produces for a chapter with
\* paragraphs has display width (wide glyph 2, any other glyph 1) at most the
\* column width the chapter was wrapped to, the lines of the translations
\* included.
C20_WidthBound ==
    LaidOut =>
        \A k \in 1..Len(AllLines) : display_width(AllLines[k]) <= EffectiveWidth

\* translate mode, with a line of wide glyphs after a narrow one that ends
\* one column short of the width, a full line, and a wrapped translation
C20_Witness ==
    /\ LaidOut
    /\ translate_mode
    /\ \E k \in 1..Len(AllLines) :
          /\ AllLines[k] # <<>>
          /\ display_width(AllLines[k]) = EffectiveWidth - 1
          /\ AllLines[k][Len(AllLines[k])] \in WideGlyphs
    /\ \E k \in 1..Len(AllLines) : display_width(AllLines[k]) = EffectiveWidth
    /\ \E k \in 1..(Len(AllLines) - 1) :
          /\ Len(AllLines[k]) > Len(TRANSLATION_PREFIX)
          /\ SubSeq(AllLines[k], 1, Len(TRANSLATION_PREFIX)) = TRANSLATION_PREFIX
          /\ display_width(AllLines[k]) >= EffectiveWidth - 1
          /\ AllLines[k + 1] # <<>>

\* the page height _reflow cuts to (line 217)
PageHeight == Max(3, get_content_dimensions(size).h)

\* _reflow has run
Reflowed == events > 0 /\ ~crashed

\* C21 (as stated): every page _reflow produces has exactly page-height
\* lines.
C21_Original ==
    Reflowed => \A k \in 1..Len(pages) : Len(pages[k]) = PageHeight

\* C21 (amended): every page has at least one line and at most page-height
\* lines, and every page but the last has exactly page-height lines.
C21_PageLength ==
    Reflowed =>
        \A k \in 1..Len(pages) :
            /\ 1 <= Len(pages[k])
            /\ Len(pages[k]) <= PageHeight
            /\ k < Len(pages) => Len(pages[k]) = PageHeight

\* several pages, the last one shorter than the page height
C21_Witness ==
    /\ Reflowed
    /\ Len(pages) >= 3
    /\ Len(pages[Len(pages)]) < PageHeight
    /\ Len(pages[1]) = PageHeight

\* the current chapter is missing or has no paragraphs
Degenerate ==
    \/ IsNone(content)
    \/ ~HasChapter(chapter_idx)
    \/ Val(content).chapters[chapter_idx + 1] = <<>>

\* C22: after _reflow the page list is not empty and is as long as the list
\* of paragraph ranges; for a missing chapter or a chapter without
\* paragraphs there is exactly the placeholder page with the range (0, 0).
C22_NeverEmpty ==
    Reflowed =>
        /\ pages # <<>>
        /\ Len(pages) = Len(page_para_ranges)
        /\ Degenerate =>
              /\ pages = <<PLACEHOLDER_PAGE>>
              /\ page_para_ranges = <<PLACEHOLDER_RANGE>>

\* _reflow has run on a chapter without paragraphs
C22_Witness ==
    /\ Reflowed
    /\ HasChapter(chapter_idx)
    /\ Val(content).chapters[chapter_idx + 1] = <<>>
    /\ pages = <<PLACEHOLDER_PAGE>>

\* the answers to the last queries of the given kind
AnswersTo(op) == SelectSeq(engine.queries, LAMBDA e : e.op = op)

\* C23: is_configured answers true exactly when a provider is selected and
\* either it is ollama and has an endpoint, or it has both an API key and an
\* endpoint.
C23_IsConfigured ==
    \A k \in 1..Len(AnswersTo("is_configured")) :
        LET e == AnswersTo("is_configured")[k]
        IN  e.result <=>
              /\ ~IsNone(e.active)
              /\ \/ Val(e.active).name = "ollama" /\ Val(e.active).base_url # <<>>
                 \/ Val(e.active).api_key # <<>> /\ Val(e.active).base_url # <<>>

\* is_configured has answered true for ollama without a key and false for a
\* provider without its key
C23_Witness ==
    /\ Len(AnswersTo("is_configured")) = 2
    /\ AnswersTo("is_configured")[1].result
    /\ Val(AnswersTo("is_configured")[1].active).name = "ollama"
    /\ Val(AnswersTo("is_configured")[1].active).api_key = <<>>
    /\ ~AnswersTo("is_configured")[2].result
    /\ ~IsNone(AnswersTo("is_configured")[2].active)
    /\ Val(AnswersTo("is_configured")[2].active).name = "qwen"

\* C24: the cache key depends on the text and the language only: two
\* _make_hash calls with the same text and language give the same key
\* whichever provider is active at each, and two calls with the same text
\* and different languages give different keys.
C24_KeyDeterminism ==
    \A i, j \in 1..Len(AnswersTo("make_hash")) :
        LET e1 == AnswersTo("make_hash")[i]
            e2 == AnswersTo("make_hash")[j]
        IN  e1.text = e2.text => ((e1.lang = e2.lang) <=> (e1.result = e2.result))

\* the same text was hashed for two languages under two providers
C24_Witness ==
    /\ Len(AnswersTo("make_hash")) = 2
    /\ AnswersTo("make_hash")[1].text = AnswersTo("make_hash")[2].text
    /\ AnswersTo("make_hash")[1].lang # AnswersTo("make_hash")[2].lang
    /\ AnswersTo("make_hash")[1].active # AnswersTo("make_hash")[2].active
    /\ AnswersTo("make_hash")[1].result # AnswersTo("make_hash")[2].result

\* the paragraph's key has a row in the cache
HasRow(text) == MakeHash(text, target_lang) \in DOMAIN db_cache

\* C25: is_translated(p) is true exactly when p is whitespace only or the
\* cache has a row under the key of p and the target language, whatever the
\* row holds; count_translated(P) is the number of positions of P whose
\* paragraph is_translated.
C25_TranslatedCount ==
    /\ \A k \in 1..Len(AnswersTo("is_translated")) :
          LET e == AnswersTo("is_translated")[k]
          IN  e.result <=> (IsBlank(e.text) \/ HasRow(e.text))
    /\ \A k \in 1..Len(AnswersTo("count_translated")) :
          LET e == AnswersTo("count_translated")[k]
          IN  e.result = Cardinality({n \in 1..Len(e.paragraphs) :
                                        IsBlank(e.paragraphs[n]) \/ HasRow(e.paragraphs[n])})

\* a text whose row holds an empty translation was found translated, and a
\* list with a blank, a cached and an uncached paragraph was counted
C25_Witness ==
    /\ Len(engine.queries) = 2
    /\ engine.queries[1].op = "is_translated"
    /\ engine.queries[1].text = <<"a">>
    /\ engine.queries[1].result = TRUE
    /\ get_cached_translation(db_cache, MakeHash(<<"a">>, target_lang)) = Some(<<>>)
    /\ engine.queries[2].op = "count_translated"
    /\ Len(engine.queries[2].paragraphs) = 3
    /\ engine.queries[2].result = 2

\* C30: close() leaves the engine without a client, releasing the client it
\* had and no other; called on an engine without a client (before any
\* request, or after an earlier close) it changes nothing; it never touches
\* the cache, the provider or the cancel flag.
C30_CloseIdempotent ==
    [][Close =>
         /\ IsNone(engine'.client)
         /\ ~IsNone(engine.client) => Val(engine.client) \in engine'.released
         /\ IsNone(engine.client) => engine' = engine
         /\ engine'.released \subseteq
               engine.released \cup (IF IsNone(engine.client) THEN {} ELSE {Val(engine.client)})
         /\ UNCHANGED <<db_cache, provider, cancel>>]_vars

\* the second client the engine made has been released, like the first
C30_Witness ==
    /\ IsNone(engine.client)
    /\ engine.made = 2
    /\ engine.released = {1, 2}

\* the rows of the three tables that belong to the books of a set
RowsOf(lib, ids) ==
    [books |-> lib.books \cap ids,
     reading_progress |-> [b \in (DOMAIN lib.reading_progress) \cap ids |->
                              lib.reading_progress[b]],
     bookmarks |-> {m \in lib.bookmarks : m[1] \in ids}]

\* C26: after remove_book(id) the store holds no book, no reading-progress
\* row and no bookmark with that id, and the rows of the other books are as
\* before.
C26_CascadeDelete ==
    [][\A id \in BookIds :
         RemoveBook(id) =>
            /\ RowsOf(library', {id}) = RowsOf(EmptyLibrary, {id})
            /\ RowsOf(library', BookIds \ {id}) = RowsOf(library, BookIds \ {id})]_vars

\* remove_book has removed a book that had progress and a bookmark, and
\* another book still has its progress and its bookmark
C26_Witness ==
    /\ library.last_call = "remove_book"
    /\ library.books = {"b2"}
    /\ "b1" \in library.table
    /\ DOMAIN library.reading_progress = {"b2"}
    /\ \E m \in library.bookmarks : m[1] = "b2"
    /\ \A m \in library.bookmarks : m[1] # "b1"

\* C29 (as stated): when the delete dialog is answered with yes, the book
\* leaves the store with its rows and "Removed" is notified; when it is
\* answered with no, the store is unchanged and nothing is notified.
C29_Original ==
    [][/\ DeleteAnswered(TRUE) =>
            /\ RowsOf(library', {Val(library.dialog)}) = RowsOf(EmptyLibrary, BookIds)
            /\ library'.notes = <<"removed">>
       /\ (DeleteAnswered(FALSE) /\ ~DeleteAnswered(TRUE)) =>
            /\ RowsOf(library', BookIds) = RowsOf(library, BookIds)
            /\ library'.notes = <<>>]_vars

\* the keys and clicks that move through the book, and the export
NavigationOrExport ==
    \/ action_next_page
    \/ action_prev_page
    \/ action_next_chapter
    \/ action_prev_chapter
    \/ on_toc_selected
    \/ on_bookmark_selected
    \/ action_export_bilingual

\* C27 (as stated): when the parser raises, the session stays unloaded and
\* the failure is notified, and from then on every navigation or export
\* action leaves the cursor, the pages and the stored progress unchanged.
C27_Original ==
    [][/\ LoadFailed => (IsNone(content') /\ ~loaded' /\ notes' = <<"load_error">>)
       /\ load_st = "failed" => (IsNone(content') /\ ~loaded')
       /\ (load_st = "failed" /\ NavigationOrExport) =>
              UNCHANGED <<chapter_idx, page_idx, pages, progress>>]_vars

\* the state a handler leaves when the store takes its writes
WithStore(H(_)) == H([ReaderState EXCEPT !.writable = TRUE])

\* the step took the session where the handler takes it with a working
\* store: the same cursor and the same translation workers, the session
\* alive
NavigatedAs(r) ==
    /\ ~crashed'
    /\ chapter_idx' = r.chapter_idx
    /\ page_idx' = r.page_idx
    /\ workers' = r.workers

\* C28 (as stated): when the write of the reading progress fails during a
\* page or chapter action, the cursor still moves to the target position,
\* the session does not end, and the rest of the action, the issue of the
\* prefetch worker in translation mode included, takes place.
C28_Original ==
    [][~library.writable =>
          /\ action_next_page => NavigatedAs(WithStore(NextPage))
          /\ action_prev_page => NavigatedAs(WithStore(PrevPage))
          /\ action_next_chapter => NavigatedAs(WithStore(NextChapter))
          /\ action_prev_chapter => NavigatedAs(WithStore(PrevChapter))]_vars

\* the positions, in input order, of the non-blank paragraphs that had no
\* cache row when the call started
UncachedAtStart ==
    SelectSeq([i \in 1..Len(all_call.paragraphs) |-> i],
              LAMBDA i : ~IsBlank(all_call.paragraphs[i]) /\ ~HadEntry(i))

\* the positions the requests of the call carry, in dispatch order
SentIndices == Concat([k \in 1..Len(AllSent) |-> AllSent[k].indices])

\* C31 (as stated): every request of translate_all carries 1 to 20
\* paragraphs, and when the call returns without having seen the cancel
\* flag the requests in dispatch order hold exactly the uncached non-blank
\* paragraphs of the input, in input order, each once.
C31_Original ==
    /\ \A k \in 1..Len(AllSent) :
          /\ 1 <= Len(AllSent[k].indices)
          /\ Len(AllSent[k].indices) <= BATCH_MAX_PARAGRAPHS
    /\ (all_call.pc = "returned" /\ ~all_call.observed) =>
          SentIndices = UncachedAtStart

\* the content width _get_content_dimensions reports
ViewportWidth == get_content_dimensions(size).w

\* line j of page k, "" past the page's lines and past the last page
\* (_render_page, lines 274-283)
PageLine(k, j) ==
    IF k <= Len(pages) /\ j <= Len(pages[k]) THEN pages[k][j] ELSE <<>>

\* the display width of row j of the spread whose left page is page k:
\* the left line padded to the column, " | ", the right line
\* (_render_page, line 284, and _pad_to_width)
SpreadRowWidth(k, j, column) ==
    Max(display_width(PageLine(k, j)), column) + 3 + display_width(PageLine(k + 1, j))

\* _reflow has laid out a chapter in dual-page mode
DualLaidOut == Reflowed /\ LaidOut /\ dual_mode

\* C32 (as stated): in dual-page mode every line is wrapped to
\* (viewportWidth - 3) / 2 columns, and no row of two columns and the
\* divider is wider than viewportWidth.
C32_Original ==
    DualLaidOut =>
        /\ \A k \in 1..Len(AllLines) :
              display_width(AllLines[k]) <= (ViewportWidth - 3) \div 2
        /\ \A k \in 1..Len(pages), j \in 1..PageHeight :
              SpreadRowWidth(k, j, (ViewportWidth - 3) \div 2) <= ViewportWidth

\* C32 (amended): in dual-page mode every line is wrapped to
\* max(20, (viewportWidth - 3) / 2) columns, and when viewportWidth is at
\* least 43 no row of two columns and the divider is wider than
\* viewportWidth.
C32_DualColumn ==
    DualLaidOut =>
        /\ \A k \in 1..Len(AllLines) :
              display_width(AllLines[k]) <= Max(20, (ViewportWidth - 3) \div 2)
        /\ ViewportWidth >= 43 =>
              \A k \in 1..Len(pages), j \in 1..PageHeight :
                  SpreadRowWidth(k, j, Max(20, (ViewportWidth - 3) \div 2)) <= ViewportWidth

\* dual mode at 43 columns: a line that fills its column of 20 on a page
\* that has a right-hand page, and a row as wide as the viewport
C32_Witness ==
    /\ DualLaidOut
    /\ ViewportWidth = 43
    /\ Len(pages) >= 2
    /\ \E j \in 1..Len(pages[1]) : display_width(pages[1][j]) = 20
    /\ \E j \in 1..PageHeight : SpreadRowWidth(1, j, 20) = 43

\* a text that has a row in the cache
HadRow(db, text) ==
    ~IsBlank(text) /\ ~IsNone(get_cached_translation(db, MakeHash(text, target_lang)))

\* the lines the paragraph with index pi is to contribute: its own wrapped
\* lines, in translate mode the wrapped lines of its cached translation,
\* then its spacing lines
ClaimedLines(pi) ==
    wrap_cjk(ChapterParagraphs[pi + 1], EffectiveWidth)
    \o (IF translate_mode /\ HadRow(db_cache, ChapterParagraphs[pi + 1])
        THEN wrap_cjk(TRANSLATION_PREFIX
                        \o Val(get_cached_translation(db_cache,
                                  MakeHash(ChapterParagraphs[pi + 1], target_lang))),
                      EffectiveWidth)
        ELSE <<>>)
    \o (IF pi < Len(ChapterParagraphs) - 1 THEN Repeat(<<>>, line_spacing) ELSE <<>>)

\* the paragraph index each of those lines is attributed to
ClaimedOwners ==
    Concat([k \in 1..Len(ChapterParagraphs) |-> Repeat(k - 1, Len(ClaimedLines(k - 1)))])

\* C33 (as stated): the lines of the pages are, paragraph after paragraph,
\* the paragraph's wrapped lines, then in translate mode the wrapped lines
\* of its cached translation if it has one, then its spacing lines; every
\* page's range runs from the paragraph of its first line to the paragraph
\* of its last line under that attribution.
C33_Original ==
    (Reflowed /\ LaidOut) =>
        /\ AllLines = Concat([k \in 1..Len(ChapterParagraphs) |-> ClaimedLines(k - 1)])
        /\ \A k \in 1..Len(pages) :
              page_para_ranges[k] =
                 <<ClaimedOwners[(k - 1) * PageHeight + 1],
                   ClaimedOwners[Min(k * PageHeight, Len(ClaimedOwners))]>>

\* the calls of on_progress made by the translate_all call, as <<done, total>>
Reports == all_call.reports

\* C34 (as stated): every on_progress(done, total) of translate_all has
\* total equal to the number of input paragraphs and 0 <= done <= total, done
\* never decreases from one call to the next, and when translate_all returns
\* without having seen the cancel flag the last done reported is total.
C34_Original ==
    /\ \A k \in 1..Len(Reports) :
          /\ Reports[k][2] = Len(all_call.paragraphs)
          /\ 0 <= Reports[k][1]
          /\ Reports[k][1] <= Reports[k][2]
    /\ \A k \in 1..(Len(Reports) - 1) : Reports[k][1] <= Reports[k + 1][1]
    /\ (all_call.pc = "returned" /\ ~all_call.observed) =>
          Reports[Len(Reports)][1] = Len(all_call.paragraphs)

\* the chapter indices of the paragraphs in the request of a translate_batch
\* call of a prefetch worker; a call with no miss, or with no provider
\* selected, sends no request
RequestedParagraphs(batch) ==
    IF IsNone(provider) THEN {}
    ELSE {batch.start + batch.idx[j] - 1 : j \in 1..Len(batch.idx)}

\* C35 (as stated): in one prefetch worker no paragraph of the chapter is in
\* the requests of two of its translate_batch calls.
C35_Original ==
    \A i \in DOMAIN workers :
        \A b1, b2 \in DOMAIN workers[i].batches :
            b1 # b2 =>
                RequestedParagraphs(workers[i].batches[b1])
                    \cap RequestedParagraphs(workers[i].batches[b2]) = {}

\* C36 (as stated): while translation mode is on in a loaded book, every
\* paragraph of an earlier chapter and every paragraph of the current chapter
\* before the first paragraph of the current page has a cached translation.
C36_Original == (loaded /\ translate_mode /\ ~crashed) => ~GapBeforeCursor

\* the load has started and _after_load has not run yet
Loading == load_st \in {"running", "parsed"}

\* C37 (as stated): from the start of the load to the end of _after_load the
\* stored progress is not written, and no navigation action changes the
\* cursor, so _after_load restores the position stored before the load.
C37_Original ==
    [][Loading =>
          /\ UNCHANGED progress
          /\ NavigationOrExport => UNCHANGED <<chapter_idx, page_idx>>]_vars

\* C38 (as stated): adding a book whose id is already in the store keeps
\* the book, its reading-progress row and its bookmarks.
C38_Original ==
    [][\A id \in BookIds :
         (FinishAddBook(id) /\ id \in library.books) =>
            RowsOf(library', {id}) = RowsOf(library, {id})]_vars

\* the lines are the text cut into pieces in order, nothing lost but at most
\* one blank at each cut
RECURSIVE CutOf(_, _)
CutOf(lines, text) ==
    IF lines = <<>> THEN text = <<>>
    ELSE /\ Len(Head(lines)) <= Len(text)
         /\ SubSeq(text, 1, Len(Head(lines))) = Head(lines)
         /\ LET rest == SubSeq(text, Len(Head(lines)) + 1, Len(text))
            IN  IF Len(lines) = 1 THEN rest = <<>>
                ELSE \/ CutOf(Tail(lines), rest)
                     \/ /\ rest # <<>>
                        /\ Head(rest) = " "
                        /\ CutOf(Tail(lines), Tail(rest))

\* _reflow has laid out, translation mode off, a chapter of one paragraph
\* that is not blank and holds a glyph outside ASCII
WrappedByWidth ==
    /\ Reflowed
    /\ LaidOut
    /\ ~translate_mode
    /\ Len(ChapterParagraphs) = 1
    /\ ~IsBlank(ChapterParagraphs[1])
    /\ \E i \in 1..Len(ChapterParagraphs[1]) : ChapterParagraphs[1][i] \in NonAscii

\* C39: the lines of a paragraph with a glyph outside ASCII are the
\* paragraph's characters in their order, with at most one blank left out at
\* each line break and nothing else, and there is at least one line.
C39_WrapPreserves ==
    WrappedByWidth =>
        /\ Len(AllLines) >= 1
        /\ CutOf(AllLines, ChapterParagraphs[1])

\* a paragraph with two blanks where the line breaks: the first is left
\* out, the second starts the next line
C39_Witness ==
    /\ WrappedByWidth
    /\ Len(AllLines) = 2
    /\ Len(AllLines[1]) + Len(AllLines[2]) = Len(ChapterParagraphs[1]) - 1
    /\ AllLines[2][1] = " "
    /\ AllLines[1][Len(AllLines[1])] \in WideGlyphs

\* translate_all awaits a request or the scheduler
AllAwaiting == all_call.pc \in {"chunk", "sleep", "final"}

\* translate_all has returned or raised
AllEnded == all_call.pc \in {"returned", "raised"}

\* translate_all has returned, no request having failed, without having
\* seen the cancel flag
AllCompleted == all_call.pc = "returned" /\ ~all_call.observed

\* C40: when every request returns, a translate_all call that awaits ends;
\* and when it returns without a failed request and without having seen the
\* cancel flag, every non-blank paragraph of the input has a cache row and
\* the list returned is as long as the input.
C40_Terminates ==
    /\ AllAwaiting ~> AllEnded
    /\ [](AllCompleted =>
            /\ Len(all_call.results) = Len(all_call.paragraphs)
            /\ \A i \in 1..Len(all_call.paragraphs) :
                  ~IsBlank(all_call.paragraphs[i]) => HasRow(all_call.paragraphs[i]))

\* a call over a blank paragraph and twenty-one uncached ones has sent a
\* full chunk and a last request and returned, on a cache that was empty
C40_Witness ==
    /\ AllCompleted
    /\ all_call.db0 = <<>>
    /\ Len(AllSent) = 2
    /\ Len(all_call.paragraphs) = BATCH_MAX_PARAGRAPHS + 2
    /\ \E i \in 1..Len(all_call.paragraphs) : IsBlank(all_call.paragraphs[i])
    /\ HasRow(TextC)

=============================================================================
